---- MODULE Spec2Model ----
(***************************************************************************)
(* Scoring and course normalisation of mana-running (Next.js pages over a  *)
(* Supabase database).  The pages are modelled as actions over the rows    *)
(* the database returns to them; every helper below is translated from the *)
(* page source it names in MODEL_MAP.json.                                 *)
(*                                                                         *)
(* Numbers.  xc_time_rating is a decimal; it is held here in thousandths   *)
(* (RatingDen), so a product t * rating is held as the integer t * r in    *)
(* units of 1/RatingDen and nothing is lost.  SQL NULL in a numeric column *)
(* is NULL, with JavaScript's coercions (Truthy, ToNumber) spelled out.    *)
(***************************************************************************)
EXTENDS Integers, Sequences, FiniteSets

\* ------------------------------------------------------------------ bounds

\* Most rows one meet holds in the team-scoring specification Spec.
MaxResults == 10

\* Most rows one meet holds in SpecTie, where two teams of six meet.
MaxTieResults == 12

\* Most joined rows a school or athlete query returns in SpecNorm.
MaxRows == 2

\* Most rows one meet holds in SpecOrder, where times tie and the ids of the
\* rows come in any order.
MaxOrderResults == 4

\* Most rows one meet holds in SpecDup, where an athlete may have several rows.
MaxDupResults == 6

\* Most rows getAllWithDetails returns to the home page in SpecHome.
MaxDetails == 4

\* ------------------------------------------------------ values and coercions

\* SQL NULL / JavaScript null in a numeric column.
NULL == -1

\* xc_time_rating r stands for the decimal r / RatingDen.
RatingDen == 1000

\* Ratings a meet's course may carry in the team-scoring specification.
MeetRatings == {NULL, 1250}

\* schools.id of the schools that race; NoSchool is the '' of school?.id || ''.
SchoolIds == {1, 2}

NoSchool == 0

\* races.gender as the combined page reads it.
Genders == {"M", "F"}

\* Ratings of the courses behind the rows of SpecNorm: none, 1.000, 1.005.
CourseRatings == {NULL, 1000, 1005}

\* results.time_seconds of the rows of SpecNorm.
RowTimes == {101, 110}

\* distance_miles of a course, in tenths of a mile.
CourseDistances == {30, 31}

\* difficulty_rating of a course.
CourseDifficulties == {3, 5}

\* season_year of a result.
SeasonYears == {2024, 2025}

\* meet_date of a result of SpecNorm.
MeetDates == {20250906, 20251004}

\* Most rows the record queries return in SpecGrade.
MaxRecordRows == 2

\* athletes.gender as the record pages read it.
AthleteGenders == {"M", "F"}

\* graduation_year of the athletes of SpecGrade: with the dates below they
\* give grades 8 to 13.
GraduationYears == {2024, 2026, 2028}

\* meet_date of the meets of SpecGrade: either side of the school year's turn.
RecordDates == {20240630, 20240701, 20241104}

\* results.time_seconds of the rows of SpecGrade.
RecordTimes == {600, 620}

\* The course a meet was run on: the meet of 2024-06-30 on course 2, the
\* others on course 1.
MeetCourse(d) == IF d = 20240630 THEN 2 ELSE 1

\* courses.xc_time_rating of the courses of SpecGrade: course 1 has 1.000,
\* course 2 has 1.100.
CourseRating(c) == IF c = 2 THEN 1100 ELSE 1000

\* Most rows of results the top-10 queries can draw on in SpecTop.
MaxPerformances == 4

\* The .limit(100) of the top-10 queries and the .slice(0, 10) of the lists,
\* scaled to pools of MaxPerformances rows.
QueryLimit == 3

TopN == 2

\* The athletes of SpecTop: 1 and 2 are boys, 3 is a girl.
PerformanceAthletes == {1, 2, 3}

\* time_seconds and course xc_time_rating of the rows of SpecTop: the faster
\* raw time is slower once normalized (600 * 1.1 against 620 * 1.0).
PerformanceTimes == { << 600, 1100 >>, << 600, 1000 >>, << 620, 1000 >>,
                      << 620, NULL >> }

\* Most (race, gender) groups of results in SpecTeam.
MaxRaceGroups == 2

\* The races of SpecTeam, the number of results of a group (one short of a
\* team, and one more than the scoring five) and its fastest time.
TeamRaces == {1, 2}

GroupSizes == {4, 6}

GroupBaseTimes == {1000, 1100}

\* The runners whose times make a team record, and the team records listed.
TeamSize == 5

TopTeams == 10

\* The id of the school whose records page is open.
SchoolId == 1

\* The value of grade in the record of a gender's overall best.
Overall == 0

\* A date 'YYYY-MM-DD' is held as the number YYYYMMDD, so that dates compare
\* as their instants do.

\* Most rows of the school's results in SpecGender.
MaxGenderRows == 3

\* Most results of the athlete in SpecBests.
MaxBestRows == 3

\* The courses the athlete of SpecBests has raced, the times and the dates.
BestCourses == {1, 2, 3}

BestTimes == {101, 110}

BestDates == {20250906, 20251004}

\* courses.name as results_with_details gives it: courses 1 and 3 are two
\* courses of one name; names sort as numbers do.
CourseNameOf(course) == IF course = 3 THEN 1 ELSE course

\* Most results of a meet in SpecMixed.
MaxMixedResults == 4

\* races.gender of the rows of SpecMixed: the two values the combined page
\* tests for and the value the records pages test for.
RaceGenders == {"M", "F", "Boys"}

\* Most rows getAllWithDetails returns to the home page in SpecMovers.
MaxHistory == 3

\* meet_date of the rows of SpecMovers: before the 30-day cutoff, on it and
\* after it (and within the last 10 days).
HistoryDates == {20250901, 20251007, 20251101}

\* athlete ids of the rows the home page reads.
DetailAthletes == {1, 2}

\* normalized_time_seconds (and time_seconds) of the rows the home page reads.
DetailTimes == {300, 320}

\* meet_date of the rows the home page reads: one before both cutoffs, one
\* inside the last 10 days.
DetailDates == {20250901, 20251101}

\* now - 30 days and now - 10 days of a home page opened on 2025-11-06.
ThirtyDaysAgo == 20251007

TenDaysAgo == 20251027

\* JavaScript truthiness of a number-or-null: null and 0 are falsy.
Truthy(x) == x # NULL /\ x # 0

\* JavaScript ToNumber in an arithmetic expression: null becomes 0.
ToNumber(x) == IF x = NULL THEN 0 ELSE x

RECURSIVE SumSeq(_)
\* Array.prototype.reduce((sum, x) => sum + x, 0) over a sequence of numbers.
SumSeq(s) == IF s = << >> THEN 0 ELSE s[1] + SumSeq(Tail(s))

\* The first min(n, Len(s)) elements: Array.prototype.slice(0, n).
Slice(s, n) == SubSeq(s, 1, IF n < Len(s) THEN n ELSE Len(s))

\* Math.round of the rational num / den (den > 0): the nearest integer, a
\* half rounding up.
MathRound(num, den) == (2 * num + den) \div (2 * den)

\* A rational number as << numerator, denominator >>, denominator > 0.
FracEq(a, b) == a[1] * b[2] = b[1] * a[2]

FracLess(a, b) == a[1] * b[2] < b[1] * a[2]

RECURSIVE GCD(_, _)
GCD(a, b) == IF b = 0 THEN a ELSE GCD(b, a % b)

\* The least common denominator of two fractions.
CommonDen(a, b) == (a[2] \div GCD(a[2], b[2])) * b[2]

FracAdd(a, b) ==
    LET l == CommonDen(a, b)
    IN  << a[1] * (l \div a[2]) + b[1] * (l \div b[2]), l >>

FracSub(a, b) ==
    LET l == CommonDen(a, b)
    IN  << a[1] * (l \div a[2]) - b[1] * (l \div b[2]), l >>

RECURSIVE FracSum(_)
\* reduce((sum, time) => sum + time, 0) over fractions.
FracSum(s) == IF s = << >> THEN << 0, 1 >> ELSE FracAdd(s[1], FracSum(Tail(s)))

\* Math.min(...s) of a non-empty sequence of fractions.
FracMin(s) ==
    s[CHOOSE i \in DOMAIN s : \A j \in DOMAIN s : ~FracLess(s[j], s[i])]

\* Array.prototype.sort((a, b) => key(a) - key(b)): a stable ascending sort.
\* keys[i] is the key of s[i]; element i lands after every element with a
\* smaller key and after the earlier elements with an equal key.
SortByKey(s, keys) ==
    LET n == Len(s)
        pos(i) == Cardinality({j \in 1..n : keys[j] < keys[i]})
                  + Cardinality({j \in 1..i : keys[j] = keys[i]})
    IN  [p \in 1..n |-> s[CHOOSE i \in 1..n : pos(i) = p]]

\* ---------------------------------------------------------------- importer

\* Rows of one results file.
MaxFileRows == 3

\* Athletes the database holds before the import.
MaxExistingAthletes == 1

\* normalizeAthleteName(row.Athlete): the first word and the rest, in the
\* file's own letter case.
ImportNames ==
    { [ firstName |-> "Ann", lastName |-> "Lee" ],
      [ firstName |-> "ann", lastName |-> "Lee" ],
      [ firstName |-> "Bo",  lastName |-> "Roy" ] }

\* row.Grade of the rows.
ImportGrades == {9, 11}

\* meetInfo.date of the meet imported: before and after the school year's
\* turn.
ImportMeetDates == {20240512, 20241104}

\* String.prototype.toLowerCase() on the words of the names above.
ToLowerCase(str) ==
    CASE str = "Ann" -> "ann"
      [] str = "Lee" -> "lee"
      [] str = "Bo"  -> "bo"
      [] str = "Roy" -> "roy"
      [] OTHER       -> str

\* calculateGraduationYear(grade, currentYear).
CalculateGraduationYear(grade, currentYear) ==
    IF grade >= 9 /\ grade <= 12
    THEN currentYear + (12 - grade)
    ELSE currentYear + 1

\* existingAthletes.find(...): the index of the first athlete of the list
\* with the row's name, letter case apart, at the row's school; 0 if none.
FindExistingAthlete(existingAthletes, name, schoolOfRow) ==
    LET hits == { i \in DOMAIN existingAthletes :
                    /\ ToLowerCase(existingAthletes[i].first_name)
                          = ToLowerCase(name.firstName)
                    /\ ToLowerCase(existingAthletes[i].last_name)
                          = ToLowerCase(name.lastName)
                    /\ existingAthletes[i].current_school_id = schoolOfRow }
    IN  IF hits = {} THEN 0
        ELSE CHOOSE i \in hits : \A j \in hits : i <= j

\* `${firstName}_${lastName}_${school.id}`: the key of athleteMap, in the
\* file's own letter case.
AthleteKey(row) ==
    << row.Athlete.firstName, row.Athlete.lastName, row.School >>

\* The unique index on (first_name, last_name, current_school_id,
\* graduation_year): whether the table holds a row equal on all four.
ViolatesUniqueIndex(table, athlete) ==
    \E i \in DOMAIN table :
        /\ table[i].first_name = athlete.first_name
        /\ table[i].last_name = athlete.last_name
        /\ table[i].current_school_id = athlete.current_school_id
        /\ table[i].graduation_year = athlete.graduation_year

\* athleteMap.set(key, athlete).
MapSet(map, key, value) ==
    [ k \in DOMAIN map \cup {key} |-> IF k = key THEN value ELSE map[k] ]

\* The loop that creates the missing athletes, from row i on. acc carries
\* the athletes table, athleteMap (key to athlete id), athletesCreated and
\* whether athleteCRUD.create threw. existingAthletes is the list read before
\* the loop; enforced says whether the database carries the unique index.
RECURSIVE CreateMissingAthletes(_, _, _, _, _, _)
CreateMissingAthletes(data, i, acc, existingAthletes, year, enforced) ==
    IF i > Len(data) \/ acc.threw THEN acc
    ELSE LET row == data[i]
             found == FindExistingAthlete(existingAthletes, row.Athlete,
                                          row.School)
             created ==
                 [ id                |-> Len(acc.table) + 1,
                   first_name        |-> row.Athlete.firstName,
                   last_name         |-> row.Athlete.lastName,
                   graduation_year   |->
                       CalculateGraduationYear(row.Grade, year),
                   gender            |-> IF row.Gender = "Boys" THEN "M"
                                         ELSE IF row.Gender = "Girls" THEN "F"
                                         ELSE "undefined",
                   current_school_id |-> row.School,
                   from_row          |-> i ]   \* not a column: the row
                                               \* the athlete came from
             next ==
                 IF found # 0
                 THEN [ acc EXCEPT
                          !.map = MapSet(acc.map, AthleteKey(row),
                                         existingAthletes[found].id) ]
                 ELSE IF enforced /\ ViolatesUniqueIndex(acc.table, created)
                 THEN [ acc EXCEPT !.threw = TRUE ]
                 ELSE [ acc EXCEPT
                          !.table = Append(acc.table, created),
                          !.created = acc.created + 1,
                          !.map = MapSet(acc.map, AthleteKey(row),
                                         created.id) ]
         IN  CreateMissingAthletes(data, i + 1, next, existingAthletes, year,
                                   enforced)

\* The loop that imports the results, from row i on: one insert for every
\* row whose athlete is in athleteMap and whose time is positive.
RECURSIVE ImportResults(_, _, _, _, _, _)
ImportResults(data, i, table, map, meetId, year) ==
    IF i > Len(data) THEN table
    ELSE LET row == data[i]
             inserted ==
                 [ athlete_id   |-> map[AthleteKey(row)],
                   meet_id      |-> meetId,
                   time_seconds |-> row.Duration,
                   season_year  |-> year ]
         IN  ImportResults(data, i + 1,
                 IF AthleteKey(row) \in DOMAIN map /\ row.Duration > 0
                 THEN Append(table, inserted) ELSE table,
                 map, meetId, year)

VARIABLES
    meetRating,           \* meets.courses.xc_time_rating of the meet shown
    results,              \* rows of the results query, in the order returned
    pc,                   \* "db": rows arriving; "done": standings rendered;
                          \* "notFound", "noRating", "error": the early returns
    boysSortedResults,
    girlsSortedResults,
    boysTeamScores,
    girlsTeamScores,
    boysIncompleteTeams,
    girlsIncompleteTeams,
    allSortedResults,     \* both genders' sorted results merged (never rendered)
    rows,                 \* joined result rows a school or athlete query returns
    page,                 \* "none", or the page that loaded over rows
    processedResults,     \* school results page: the list passed to setResults
    xcRecordResults,      \* school records page: processedResults of the XC records
    seasonXcTimes,        \* athlete page: seasonXcTimes, as fractions
    seasonStats,          \* athlete page: seasonStats
    personalBests,        \* athlete page: personalBests
    boysXCRecords,        \* school records page: overall XC records, boys
    girlsXCRecords,       \* school records page: overall XC records, girls
    boysRecords,          \* course page: course records, boys
    girlsRecords,         \* course page: course records, girls
    courseId,             \* course page: the course shown, 0 before it loads
    boysTop10,            \* school records page: top performances, boys
    girlsTop10,           \* school records page: top performances, girls
    school,               \* school records page state: NULL until setSchool
    boysTeamRecords,      \* school records page: team records, boys
    girlsTeamRecords,     \* school records page: team records, girls
    allResults,           \* home page: rows of resultCRUD.getAllWithDetails()
    homePhase,            \* home page: "mount", "loaded" or "error"
    recentMeets,          \* home page state: meet dates of the recent meets
    bigMovers,            \* home page state: [boys, girls] lists of BigMover
    topPerformances,      \* home page state: [boys, girls] lists of results
    parsedData,           \* importer state: the rows of the file
    meetInfo,             \* importer state: the meet's date, 0 before import
    importComplete,       \* importer state
    stats,                \* importer state: ImportStats, errors as a count
    athletesTable,        \* database: the athletes table
    resultsTable          \* database: the results table

vars == << meetRating, results, pc, boysSortedResults, girlsSortedResults,
           boysTeamScores, girlsTeamScores, boysIncompleteTeams,
           girlsIncompleteTeams, allSortedResults, rows, page, processedResults,
           xcRecordResults, seasonXcTimes, seasonStats, personalBests, boysXCRecords,
           girlsXCRecords, boysRecords, girlsRecords, courseId, boysTop10,
           girlsTop10, school, boysTeamRecords, girlsTeamRecords, allResults,
           homePhase,
           recentMeets, bigMovers, topPerformances, parsedData, meetInfo,
           importComplete, stats, athletesTable, resultsTable >>

meetVars == << meetRating, results, pc >>

homeVars == << allResults, homePhase, recentMeets, bigMovers, topPerformances >>

teamVars == << school, boysTeamRecords, girlsTeamRecords >>

recordVars == << boysXCRecords, girlsXCRecords, boysTop10, girlsTop10,
                 teamVars >>

courseVars == << boysRecords, girlsRecords, courseId >>

importVars == << parsedData, meetInfo, importComplete, stats, athletesTable,
                 resultsTable >>

schoolVars == << rows, page, processedResults, xcRecordResults,
                 seasonXcTimes, seasonStats, personalBests, homeVars, recordVars, courseVars, importVars >>

pageVars == << boysSortedResults, girlsSortedResults, boysTeamScores,
               girlsTeamScores, boysIncompleteTeams, girlsIncompleteTeams,
               allSortedResults >>

\* ------------------------------------------------- combined results page

\* schools.name, compared by localeCompare: the names sort as the ids do.
SchoolName(schoolId) == schoolId

\* results.map((result, index) => ...): one CombinedResult per row.  xc_time
\* is timeInCentiseconds * course.xc_time_rating, held in 1/RatingDen.
CombinedResultOf(result, index, rating) ==
    [ id            |-> result.id,
      place         |-> index,
      athlete_id    |-> result.athlete_id,
      school_id     |-> result.school_id,
      team_name     |-> SchoolName(result.school_id),
      time_seconds  |-> result.time_seconds * 100,
      xc_time       |-> (result.time_seconds * 100) * ToNumber(rating),
      race_gender   |-> result.race_gender,
      overallPlace  |-> 0,
      scoringPlace  |-> 0 ]

CombinedResults(resultsData, rating) ==
    [i \in 1..Len(resultsData) |->
       CombinedResultOf(resultsData[i], i, rating)]

FilterGender(combined, g) ==
    LET IsG(r) == r.race_gender = g IN SelectSeq(combined, IsG)

\* Keys of schoolMap in insertion order: each truthy school_id at its first row.
SchoolMapKeys(res) ==
    LET idx == SelectSeq([i \in 1..Len(res) |-> i],
                         LAMBDA i : /\ res[i].school_id # NoSchool
                                    /\ \A j \in 1..(i - 1) :
                                          res[j].school_id # res[i].school_id)
    IN  [k \in 1..Len(idx) |-> res[idx[k]].school_id]

\* RunnerStatus with the displacer band one place too wide.
RunnerStatusWideDisplacer(index) ==
    IF index < 5 THEN "counting"
    ELSE IF index < 8 THEN "displacer" ELSE "non-counting"

\* 'counting' | 'displacer' | 'non-counting' by the zero-based team index.
RunnerStatus(index) ==
    IF index < 5 THEN "counting"
    ELSE IF index < 7 THEN "displacer" ELSE "non-counting"

\* sortedRunners.map((runner, index) => ...) of one school's runners.
TeamRunners(runners) ==
    LET sortedRunners == SortByKey(runners,
                                   [i \in 1..Len(runners) |-> runners[i].xc_time])
    IN  [i \in 1..Len(sortedRunners) |->
           LET runner == sortedRunners[i] IN
           [ athleteId    |-> runner.athlete_id,
             time         |-> runner.time_seconds,
             xcTime       |-> runner.xc_time,
             overallPlace |-> IF runner.overallPlace # 0
                              THEN runner.overallPlace ELSE runner.place,
             teamPlace    |-> i,
             status       |-> RunnerStatus(i - 1),
             resultId     |-> runner.id ]]

\* IsIncomplete with the threshold one runner too low.
IsIncompleteUnder4(runners) == Len(runners) < 4

\* runners.length < 5: the school is listed as incomplete, not scored.
IsIncomplete(runners) == Len(runners) < 5

\* schoolMap.get(schoolId): the school's results, in input order.
SchoolRunners(res, schoolId) ==
    SelectSeq(res, LAMBDA r : r.school_id = schoolId)

\* completeTeams.push({...}): a complete team as first built, its score and
\* place still 0.
CompleteTeamOf(res, schoolId) ==
    LET runners == SchoolRunners(res, schoolId)
        teamRunners == TeamRunners(runners)
    IN  [ schoolId   |-> schoolId,
          schoolName |-> runners[1].team_name,
          place      |-> 0,
          totalTime  |-> SumSeq([k \in 1..Len(Slice(teamRunners, 5)) |->
                                    teamRunners[k].xcTime]),
          teamScore  |-> 0,
          runners    |-> teamRunners ]

\* incompleteTeams.push({...}).
IncompleteTeamOf(res, schoolId) ==
    LET runners == SchoolRunners(res, schoolId)
    IN  [ schoolId     |-> schoolId,
          schoolName   |-> runners[1].team_name,
          totalRunners |-> Len(runners),
          runners      |-> TeamRunners(runners) ]

\* calculateXcTimeTeamScores(results).completeTeams, in schoolMap order.
CompleteTeams(res) ==
    LET keys == SelectSeq(SchoolMapKeys(res),
                          LAMBDA k : ~IsIncomplete(SchoolRunners(res, k)))
    IN  [k \in 1..Len(keys) |-> CompleteTeamOf(res, keys[k])]

\* calculateXcTimeTeamScores(results).incompleteTeams, sorted by schoolName.
IncompleteTeams(res) ==
    LET keys == SelectSeq(SchoolMapKeys(res),
                          LAMBDA k : IsIncomplete(SchoolRunners(res, k)))
        inc  == [k \in 1..Len(keys) |-> IncompleteTeamOf(res, keys[k])]
    IN  SortByKey(inc, [k \in 1..Len(inc) |-> inc[k].schoolName])

\* QualifyingRunners taking every runner of the team.
QualifyingRunnersAll(team) == team.runners

\* Runners of one team that enter the qualifying set: team.runners.slice(0, 7).
QualifyingRunners(team) == Slice(team.runners, 7)

\* boysQualifyingAthleteIds: athlete ids of the first 7 runners of each
\* complete team.
QualifyingAthleteIds(teamScores) ==
    UNION { { QualifyingRunners(teamScores[t])[k].athleteId :
                k \in DOMAIN QualifyingRunners(teamScores[t]) } :
            t \in DOMAIN teamScores }

\* SortedResults numbering the overall places from the back of the list.
SortedResultsReversed(genderResults, qualifyingAthleteIds) ==
    LET sorted == SortByKey(genderResults,
                            [i \in 1..Len(genderResults) |->
                               genderResults[i].xc_time])
        n      == Len(sorted)
    IN  [i \in 1..n |->
           [sorted[i] EXCEPT
              !.overallPlace = n + 1 - i,
              !.scoringPlace = IF sorted[i].athlete_id \in qualifyingAthleteIds
                               THEN n + 1 - i ELSE 0]]

\* [...boyResults].sort(by xc_time).map((r, i) => ...): overall place i + 1 to
\* every result, the same number as scoring place to the qualifying athletes
\* and 0 to the others.
SortedResults(genderResults, qualifyingAthleteIds) ==
    LET sorted == SortByKey(genderResults,
                            [i \in 1..Len(genderResults) |->
                               genderResults[i].xc_time])
    IN  [i \in 1..Len(sorted) |->
           [sorted[i] EXCEPT
              !.overallPlace = i,
              !.scoringPlace = IF sorted[i].athlete_id \in qualifyingAthleteIds
                               THEN i ELSE 0]]

\* sortedResults.find(r => r.athlete_id === athleteId)?.scoringPlace, else 0.
ScoringPlaceOf(sortedResults, athleteId) ==
    LET hits == { i \in DOMAIN sortedResults :
                    sortedResults[i].athlete_id = athleteId }
    IN  IF hits = {} THEN 0
        ELSE sortedResults[CHOOSE i \in hits : \A j \in hits : i <= j].scoringPlace

\* Top5Runners summing the displacers too.
Top7Runners(team) == Slice(team.runners, 7)

\* Runners whose scoring places are summed: team.runners.slice(0, 5).
Top5Runners(team) == Slice(team.runners, 5)

\* The reduce of updateTeamScores over one team's top5Runners.
TeamScoreOf(team, sortedResults) ==
    LET top5Runners == Top5Runners(team)
    IN  SumSeq([k \in 1..Len(top5Runners) |->
                  ScoringPlaceOf(sortedResults, top5Runners[k].athleteId)])

\* SortTeams leaving the teams in schoolMap order.
SortTeamsUnsorted(teamScores) == teamScores

\* teamScores.sort((a, b) => a.teamScore - b.teamScore).
SortTeams(teamScores) ==
    SortByKey(teamScores, [k \in 1..Len(teamScores) |-> teamScores[k].teamScore])

\* updateTeamScores(teamScores, sortedResults): score every team, sort the
\* teams by score, number them 1..K.
UpdateTeamScores(teamScores, sortedResults) ==
    LET scored == [k \in 1..Len(teamScores) |->
                     [teamScores[k] EXCEPT
                        !.teamScore = TeamScoreOf(teamScores[k], sortedResults)]]
        ranked == SortTeams(scored)
    IN  [k \in 1..Len(ranked) |-> [ranked[k] EXCEPT !.place = k]]

\* The standings of one gender, as a function of the page's input rows.
GenderStandings(resultsData, rating, g) ==
    LET res    == FilterGender(CombinedResults(resultsData, rating), g)
        teams  == CompleteTeams(res)
        sorted == SortedResults(res, QualifyingAthleteIds(teams))
    IN  [ teamScores      |-> UpdateTeamScores(teams, sorted),
          incompleteTeams |-> IncompleteTeams(res),
          sortedResults   |-> sorted ]

\* [...boysSortedResults, ...girlsSortedResults].sort(by xc_time) with the
\* overall place renumbered over both genders; the scoring places are kept.
AllSortedResults(boysSorted, girlsSorted) ==
    LET both   == boysSorted \o girlsSorted
        sorted == SortByKey(both, [i \in 1..Len(both) |-> both[i].xc_time])
    IN  [i \in 1..Len(sorted) |-> [sorted[i] EXCEPT !.overallPlace = i]]

\* ------------------------------------------------------------------ actions

\* A row of the meet's results as the query returns it: rows come ordered by
\* time_seconds ascending, every row with its athlete's school and its race's
\* gender.  One result per athlete; the rows of one meet share the gender of
\* its race.
AddResult(maxRows) ==
    /\ pc = "db"
    /\ Len(results) < maxRows
    /\ \E s \in SchoolIds, g \in Genders :
          /\ results # << >> => g = results[1].race_gender
          /\ results' = Append(results,
                [ id           |-> Len(results) + 1,
                  athlete_id   |-> Len(results) + 1,
                  school_id    |-> s,
                  race_gender  |-> g,
                  time_seconds |-> 900 + Len(results) ])
    /\ UNCHANGED << meetRating, pc, pageVars, schoolVars >>

\* A row of a meet whose finish times may tie: the row's time is the previous
\* row's or the next one up (the query orders by time_seconds and nothing
\* else), and its id is any id not yet used.  One result per athlete, one
\* boys' race.
AddResultInTimeOrder ==
    /\ pc = "db"
    /\ Len(results) < MaxOrderResults
    /\ \E s \in SchoolIds, tie \in BOOLEAN,
          id \in (1..MaxOrderResults) \ { results[i].id : i \in DOMAIN results } :
          /\ tie => results # << >>
          /\ results' = Append(results,
                [ id           |-> id,
                  athlete_id   |-> id,
                  school_id    |-> s,
                  race_gender  |-> "M",
                  time_seconds |-> IF results = << >> THEN 900
                                   ELSE IF tie
                                   THEN results[Len(results)].time_seconds
                                   ELSE results[Len(results)].time_seconds + 1 ])
    /\ UNCHANGED << meetRating, pc, pageVars, schoolVars >>

\* A row of a meet with races of both genders: the athlete may have no
\* school, and the race's gender is any value the column holds.  One result
\* per athlete, times ascending.
AddMixedResult ==
    /\ pc = "db"
    /\ Len(results) < MaxMixedResults
    /\ \E s \in SchoolIds \cup {NoSchool}, g \in RaceGenders :
          results' = Append(results,
                [ id           |-> Len(results) + 1,
                  athlete_id   |-> Len(results) + 1,
                  school_id    |-> s,
                  race_gender  |-> g,
                  time_seconds |-> 900 + Len(results) ])
    /\ UNCHANGED << meetRating, pc, pageVars, schoolVars >>

\* Athlete ids of the rows so far.
AthletesOf(res) == { res[i].athlete_id : i \in DOMAIN res }

\* A row of a meet in which an athlete may have more than one result of the
\* same race: the row belongs to an athlete already seen (and then to that
\* athlete's school) or to a new one.  One boys' race, times ascending.
AddResultOfAthlete ==
    /\ pc = "db"
    /\ Len(results) < MaxDupResults
    /\ \E a \in 1..(Cardinality(AthletesOf(results)) + 1), s \in SchoolIds :
          /\ \A i \in DOMAIN results :
                results[i].athlete_id = a => results[i].school_id = s
          /\ results' = Append(results,
                [ id           |-> Len(results) + 1,
                  athlete_id   |-> a,
                  school_id    |-> s,
                  race_gender  |-> "M",
                  time_seconds |-> 900 + Len(results) ])
    /\ UNCHANGED << meetRating, pc, pageVars, schoolVars >>

\* CombinedResultsPage: notFound() when the meet query fails, an error page
\* when the course has no rating or the results query fails, otherwise both
\* genders' standings.
CombinedResultsPage ==
    /\ pc = "db"
    /\ \E meetFound \in BOOLEAN, resultsLoaded \in BOOLEAN :
          IF ~meetFound
          THEN /\ pc' = "notFound"
               /\ UNCHANGED pageVars
          ELSE IF ~Truthy(meetRating)
          THEN /\ pc' = "noRating"
               /\ UNCHANGED pageVars
          ELSE IF ~resultsLoaded
          THEN /\ pc' = "error"
               /\ UNCHANGED pageVars
          ELSE LET boys  == GenderStandings(results, meetRating, "M")
                   girls == GenderStandings(results, meetRating, "F")
               IN  /\ pc' = "done"
                   /\ boysTeamScores' = boys.teamScores
                   /\ boysIncompleteTeams' = boys.incompleteTeams
                   /\ boysSortedResults' = boys.sortedResults
                   /\ girlsTeamScores' = girls.teamScores
                   /\ girlsIncompleteTeams' = girls.incompleteTeams
                   /\ girlsSortedResults' = girls.sortedResults
                   /\ allSortedResults' = AllSortedResults(boys.sortedResults,
                                                           girls.sortedResults)
    /\ UNCHANGED << meetRating, results, schoolVars >>

\* ------------------------------------------- school results page (loadData)

\* Math.round(result.time_seconds * course.xc_time_rating): a null rating
\* multiplies as 0.
SchoolResultXcTime(row) ==
    MathRound(row.time_seconds * ToNumber(row.xc_time_rating), RatingDen)

\* resultsData.forEach(...): one processed result per row that has its
\* athlete, race, meet and course.
ProcessSchoolResults(resultsData) ==
    [i \in 1..Len(resultsData) |->
       [ id           |-> resultsData[i].id,
         time_seconds |-> resultsData[i].time_seconds,
         xc_time      |-> SchoolResultXcTime(resultsData[i]),
         meet_date    |-> resultsData[i].meet_date,
         season_year  |-> resultsData[i].season_year ]]

\* -------------------------- school records page (loadOverallXCRecords)

\* .not('race.course.xc_time_rating', 'is', null): the rows the query keeps.
RatedRows(all) == SelectSeq(all, LAMBDA row : row.xc_time_rating # NULL)

\* xc_time: Math.round(r.time_seconds * r.race.course.xc_time_rating).
RecordXcTime(row) ==
    MathRound(row.time_seconds * ToNumber(row.xc_time_rating), RatingDen)

\* processedResults of loadOverallXCRecords: each row with its xc_time.
ProcessRecordResults(raceResults) ==
    [i \in 1..Len(raceResults) |->
       [ id              |-> raceResults[i].id,
         time_seconds    |-> raceResults[i].time_seconds,
         xc_time         |-> RecordXcTime(raceResults[i]),
         meet_date       |-> raceResults[i].meet_date,
         course_id       |-> raceResults[i].course_id,
         race_gender     |-> raceResults[i].race_gender,
         athlete_id      |-> raceResults[i].athlete_id,
         athlete_gender  |-> raceResults[i].athlete_gender,
         graduation_year |-> raceResults[i].graduation_year ]]

\* new Date(meet_date).getFullYear() and .getMonth() (0 for January), the
\* date read as the calendar date the meet has.
GetFullYear(d) == d \div 10000

GetMonth(d) == ((d \div 100) % 100) - 1

\* schoolYearEnding and grade of the grade filter: a race in July or later
\* belongs to the school year ending the next calendar year.
SchoolYearEnding(d) == IF GetMonth(d) >= 6 THEN GetFullYear(d) + 1 ELSE GetFullYear(d)

GradeOf(graduation_year, d) == 12 - (graduation_year - SchoolYearEnding(d))

\* reduce((prev, curr) => curr.key < prev.key ? curr : prev): the first
\* element with the least key; keys[i] is the key of s[i].
Fastest(s, keys) ==
    s[CHOOSE i \in DOMAIN s :
        /\ \A j \in DOMAIN s : keys[i] <= keys[j]
        /\ \A j \in 1..(i - 1) : keys[j] > keys[i]]

\* The record a Map entry holds for the fastest result of a bucket.  The
\* athlete, course and meet names travel as the ids and the date.
XCRecordOf(fastest, grade) ==
    [ athlete_id   |-> fastest.athlete_id,
      time_seconds |-> fastest.time_seconds,
      xc_time      |-> fastest.xc_time,
      course_id    |-> fastest.course_id,
      race_date    |-> fastest.meet_date,
      grade        |-> grade ]

\* TargetGrades starting one grade too low.
TargetGradesFrom8 == << 8, 9, 10, 11, 12 >>

\* for (let targetGrade = 9; targetGrade <= 12; targetGrade++).
TargetGrades == << 9, 10, 11, 12 >>

\* The results of one gender: the race is a 'Boys' ('Girls') race or the
\* athlete is 'M' ('F').
GenderResults(processed, g) ==
    SelectSeq(processed,
              LAMBDA r : \/ r.race_gender = (IF g = "M" THEN "Boys" ELSE "Girls")
                         \/ r.athlete_gender = g)

RECURSIVE XCGradeRecords(_, _)
\* The by-grade records in the order of the grades: for each target grade
\* with a result of that grade, the record of the fastest by xc_time.
XCGradeRecords(genderResults, grades) ==
    IF grades = << >> THEN << >>
    ELSE LET targetGrade  == Head(grades)
             gradeResults == SelectSeq(genderResults,
                               LAMBDA r : GradeOf(r.graduation_year, r.meet_date)
                                            = targetGrade)
             here == IF gradeResults = << >> THEN << >>
                     ELSE << XCRecordOf(Fastest(gradeResults,
                                          [i \in 1..Len(gradeResults) |->
                                             gradeResults[i].xc_time]),
                                        targetGrade) >>
         IN  here \o XCGradeRecords(genderResults, Tail(grades))

\* orderedBoysXC / orderedGirlsXC: the overall record, then the grade records.
XCRecords(processed, g) ==
    LET genderResults == GenderResults(processed, g)
        overall == IF genderResults = << >> THEN << >>
                   ELSE << XCRecordOf(Fastest(genderResults,
                                        [i \in 1..Len(genderResults) |->
                                           genderResults[i].xc_time]),
                                      Overall) >>
    IN  overall \o XCGradeRecords(genderResults, TargetGrades)

\* ------------------------- school records page (loadTop10Performances)

\* The rows one top-10 query returns: the school's results of athletes of the
\* gender, ordered by time_seconds, the first QueryLimit of them.  A row on a
\* course without a rating comes with no course.
Top10Query(all, g) ==
    LET mine == SelectSeq(all, LAMBDA r : r.athlete_gender = g)
    IN  Slice(SortByKey(mine, [i \in 1..Len(mine) |-> mine[i].time_seconds]),
              QueryLimit)

\* boysData.map(...).filter(p !== null).sort(by xc_time).slice(0, 10).
Top10Performances(data) ==
    LET rated == SelectSeq(data, LAMBDA r : Truthy(r.xc_time_rating))
        perfs == [i \in 1..Len(rated) |->
                    [ athlete_id      |-> rated[i].athlete_id,
                      time_seconds    |-> rated[i].time_seconds,
                      xc_time         |-> MathRound(rated[i].time_seconds
                                                      * rated[i].xc_time_rating,
                                                    RatingDen),
                      race_date       |-> rated[i].meet_date,
                      graduation_year |-> rated[i].graduation_year ]]
    IN  Slice(SortByKey(perfs, [i \in 1..Len(perfs) |-> perfs[i].xc_time]), TopN)

\* ------------------------------- school records page (loadTeamRecords)

\* The rows of the team-records query: the school's results ordered by
\* time_seconds.
TeamQuery(all) == SortByKey(all, [i \in 1..Len(all) |-> all[i].time_seconds])

\* Keys of raceGroupsMap in insertion order: each (race_id, athlete gender)
\* at its first row.
RaceGroupKeys(resultsData) ==
    LET idx == SelectSeq([i \in 1..Len(resultsData) |-> i],
                 LAMBDA i : \A j \in 1..(i - 1) :
                    \/ resultsData[j].race_id # resultsData[i].race_id
                    \/ resultsData[j].athlete_gender
                         # resultsData[i].athlete_gender)
    IN  [k \in 1..Len(idx) |-> << resultsData[idx[k]].race_id,
                                  resultsData[idx[k]].athlete_gender >>]

\* raceGroupsMap.get(key): copies of the group's rows, in the order of
\* resultsData.
RaceGroup(resultsData, key) ==
    SelectSeq(resultsData, LAMBDA r : /\ r.race_id = key[1]
                                      /\ r.athlete_gender = key[2])

\* The TeamRecord of a group of five or more: the group array sorted by
\* time_seconds, its first five, their sum and their average (a fraction).
TeamRecordOf(group, currentSchool) ==
    LET sortedResults == SortByKey(group, [i \in 1..Len(group) |->
                                             group[i].time_seconds])
        top5     == Slice(sortedResults, TeamSize)
        teamTime == SumSeq([i \in 1..Len(top5) |-> top5[i].time_seconds])
    IN  [ school_id    |-> currentSchool,
          race_id      |-> top5[1].race_id,
          race_date    |-> top5[1].meet_date,
          team_time    |-> teamTime,
          average_time |-> << teamTime, TeamSize >>,
          runners      |-> [i \in 1..Len(top5) |->
                              [ name         |-> top5[i].athlete_id,
                                time_seconds |-> top5[i].time_seconds ]] ]

\* boysTeams / girlsTeams: a fresh list of the records of the gender's groups
\* of five or more, in the order of the map.
Teams(resultsData, g, currentSchool) ==
    LET keys == SelectSeq(RaceGroupKeys(resultsData),
                  LAMBDA key : /\ key[2] = g
                               /\ Len(RaceGroup(resultsData, key)) >= TeamSize)
    IN  [k \in 1..Len(keys) |->
           TeamRecordOf(RaceGroup(resultsData, keys[k]), currentSchool)]

\* The state with the list of this run added to the list it held.
SetTeamRecordsAppended(prev, teams) ==
    LET all == prev \o teams
    IN  Slice(SortByKey(all, [i \in 1..Len(all) |-> all[i].team_time]),
              TopTeams)

\* setBoysTeamRecords(boysTeams.sort(by team_time).slice(0, 10)): the state
\* is replaced by the list of this run, whatever it held.
SetTeamRecords(prev, teams) ==
    Slice(SortByKey(teams, [i \in 1..Len(teams) |-> teams[i].team_time]),
          TopTeams)

\* ---------------------------------------- course page (loadCourseRecords)

\* raceYear and grade of the course page's grade loop: the calendar year of
\* the race, whatever its month.
CourseGradeOf(graduation_year, d) == 12 - (graduation_year - GetFullYear(d))

\* .eq('race.course_id', courseId).order('time_seconds'): the results on the
\* course, fastest first.
CourseResults(all, course) ==
    LET mine == SelectSeq(all, LAMBDA r : r.course_id = course)
    IN  SortByKey(mine, [i \in 1..Len(mine) |-> mine[i].time_seconds])

\* The record a Map entry of the course page holds.
CourseRecordOf(result, grade) ==
    [ athlete_id   |-> result.athlete_id,
      time_seconds |-> result.time_seconds,
      race_date    |-> result.meet_date,
      grade        |-> grade ]

\* The by-grade records of the course page: for each grade 9..12 the first
\* result, in time order, whose grade it is.
CourseGradeRecords(genderResults) ==
    LET inGrade(grade) == SelectSeq(genderResults,
                            LAMBDA r : CourseGradeOf(r.graduation_year, r.meet_date)
                                         = grade)
        rec(grade) == IF inGrade(grade) = << >> THEN << >>
                      ELSE << CourseRecordOf(inGrade(grade)[1], grade) >>
    IN  rec(9) \o rec(10) \o rec(11) \o rec(12)

\* orderedBoysRecords / orderedGirlsRecords of the course page.
CourseRecords(courseResults, g) ==
    LET genderResults == GenderResults(courseResults, g)
        overall == IF genderResults = << >> THEN << >>
                   ELSE << CourseRecordOf(genderResults[1], Overall) >>
    IN  overall \o CourseGradeRecords(genderResults)

\* ------------------------------------------------------------ athlete page

\* currentSeason of the athlete page.
currentSeason == 2025

\* results.filter(season_year === currentSeason).sort(by meet_date).
SeasonProgression(all) ==
    LET season == SelectSeq(all, LAMBDA row : row.season_year = currentSeason)
    IN  SortByKey(season, [i \in 1..Len(season) |-> season[i].meet_date])

\* time_seconds * (3.1 / distance_miles) * (1 + (difficulty_rating - 3) * 0.02)
\* as a fraction: 3.1 / distance_miles is 31 / d with d in tenths of a mile,
\* and 1 + (h - 3) * 0.02 is (50 + (h - 3)) / 50.
SeasonXcTime(row) ==
    << row.time_seconds * 31 * (50 + (row.difficulty_rating - 3)),
       row.distance_miles * 50 >>

SeasonXcTimes(all) ==
    LET prog == SeasonProgression(all)
    IN  [i \in 1..Len(prog) |-> SeasonXcTime(prog[i])]

\* seasonStats: races, avgTime, bestTime and improvement (0 when undefined).
SeasonStats(all) ==
    LET times == SeasonXcTimes(all)
        n     == Len(times)
    IN  [ races       |-> n,
          avgTime     |-> IF n > 0
                          THEN << FracSum(times)[1], FracSum(times)[2] * n >>
                          ELSE << 0, 1 >>,
          bestTime    |-> IF n > 0 THEN FracMin(times) ELSE << 0, 1 >>,
          improvement |-> IF n >= 2 THEN FracSub(times[1], times[n])
                          ELSE << 0, 1 >> ]

\* bestsByCourse after results.forEach: per course_name, in insertion order,
\* the first result with the least time_seconds of that name.
BestsByCourse(all) ==
    LET name(i) == CourseNameOf(all[i].course_id)
        idx == SelectSeq([i \in 1..Len(all) |-> i],
                 LAMBDA i : \A j \in DOMAIN all :
                    name(j) = name(i) =>
                       \/ all[j].time_seconds > all[i].time_seconds
                       \/ (all[j].time_seconds = all[i].time_seconds /\ j >= i))
        first(i) == CHOOSE j \in DOMAIN all :
                      /\ name(j) = name(i)
                      /\ \A k \in 1..(j - 1) : name(k) # name(i)
        byInsertion == SortByKey(idx, [k \in 1..Len(idx) |-> first(idx[k])])
    IN  [k \in 1..Len(byInsertion) |->
           LET result == all[byInsertion[k]] IN
           [ distance_miles |-> result.distance_miles,
             best_time      |-> result.time_seconds,
             meet_date      |-> result.meet_date,
             course_name    |-> CourseNameOf(result.course_id) ]]

\* Array.from(bestsByCourse.values()).sort(by course_name).
SortPersonalBests(bests) ==
    SortByKey(bests, [i \in 1..Len(bests) |-> bests[i].course_name])

\* calculatePersonalBests(results).
CalculatePersonalBests(all) == SortPersonalBests(BestsByCourse(all))

\* --------------------------------------------- actions over joined rows

\* A joined result row as the database returns it: the result's time and
\* season, its meet's date, and its course's rating, distance and difficulty.
\* The rows are results of one athlete (a boy of the class of 2026).
AddRow ==
    /\ page = "none"
    /\ Len(rows) < MaxRows
    /\ \E t \in RowTimes, r \in CourseRatings, d \in CourseDistances,
          h \in CourseDifficulties, y \in SeasonYears, m \in MeetDates :
          rows' = Append(rows,
             [ id                |-> Len(rows) + 1,
               athlete_id        |-> 1,
               athlete_gender    |-> "M",
               graduation_year   |-> 2026,
               race_gender       |-> "M",
               course_id         |-> 1,
               time_seconds      |-> t,
               xc_time_rating    |-> r,
               distance_miles    |-> d,
               difficulty_rating |-> h,
               season_year       |-> y,
               meet_date         |-> m ])
    /\ UNCHANGED << meetVars, pageVars, page, processedResults,
                    xcRecordResults, seasonXcTimes, seasonStats, personalBests, homeVars,
                    recordVars, courseVars, importVars >>

\* loadData of the school results page: 'School not found' is caught and
\* shown as an error; otherwise every row is processed and stored.
LoadSchoolResults ==
    /\ page = "none"
    /\ \E schoolFound \in BOOLEAN :
          IF schoolFound
          THEN /\ page' = "schoolResults"
               /\ processedResults' = ProcessSchoolResults(rows)
          ELSE /\ page' = "error"
               /\ UNCHANGED processedResults
    /\ UNCHANGED << meetVars, pageVars, rows, xcRecordResults,
                    seasonXcTimes, seasonStats, personalBests, homeVars, recordVars, courseVars, importVars >>

\* A joined row of the record queries: a result of its own athlete, with the
\* athlete's gender and graduation year, and the date, course and rating of
\* its meet.
AddRecordRow ==
    /\ page = "none"
    /\ Len(rows) < MaxRecordRows
    /\ \E t \in RecordTimes, g \in AthleteGenders, y \in GraduationYears,
          d \in RecordDates :
          rows' = Append(rows,
             [ id                |-> Len(rows) + 1,
               athlete_id        |-> Len(rows) + 1,
               athlete_gender    |-> g,
               graduation_year   |-> y,
               race_gender       |-> g,
               course_id         |-> MeetCourse(d),
               time_seconds      |-> t,
               xc_time_rating    |-> CourseRating(MeetCourse(d)),
               distance_miles    |-> 31,
               difficulty_rating |-> 3,
               season_year       |-> GetFullYear(d),
               meet_date         |-> d ])
    /\ UNCHANGED << meetVars, pageVars, page, processedResults,
                    xcRecordResults, seasonXcTimes, seasonStats, personalBests,
                    homeVars, recordVars, courseVars, importVars >>

\* A row of the school's results whose race and athlete each carry a gender:
\* races.gender is 'Boys' or 'Girls', athletes.gender 'M' or 'F', and nothing
\* ties the one to the other.
AddGenderRow ==
    /\ page = "none"
    /\ Len(rows) < MaxGenderRows
    /\ \E t \in RecordTimes, rg \in {"Boys", "Girls"}, ag \in AthleteGenders :
          rows' = Append(rows,
             [ id                |-> Len(rows) + 1,
               athlete_id        |-> Len(rows) + 1,
               athlete_gender    |-> ag,
               graduation_year   |-> 2026,
               race_gender       |-> rg,
               course_id         |-> 1,
               time_seconds      |-> t,
               xc_time_rating    |-> 1000,
               distance_miles    |-> 31,
               difficulty_rating |-> 3,
               season_year       |-> 2024,
               meet_date         |-> 20241104 ])
    /\ UNCHANGED << meetVars, pageVars, page, processedResults,
                    xcRecordResults, seasonXcTimes, seasonStats, personalBests,
                    homeVars, recordVars, courseVars, importVars >>

\* loadOverallXCRecords of the school records page; a query error is caught
\* and leaves the records as they were.
LoadOverallXCRecords ==
    /\ page = "none"
    /\ \E queryFailed \in BOOLEAN :
          IF queryFailed
          THEN /\ page' = "error"
               /\ UNCHANGED << xcRecordResults, recordVars >>
          ELSE LET processed == ProcessRecordResults(RatedRows(rows))
               IN  /\ page' = "schoolRecords"
                   /\ xcRecordResults' = processed
                   /\ boysXCRecords' = XCRecords(processed, "M")
                   /\ girlsXCRecords' = XCRecords(processed, "F")
                   /\ UNCHANGED << boysTop10, girlsTop10, teamVars >>
    /\ UNCHANGED << meetVars, pageVars, rows, processedResults,
                    seasonXcTimes, seasonStats, personalBests, homeVars, courseVars, importVars >>

\* A row of the school's results for the top-10 lists: a result of one of the
\* school's athletes on a course with or without a rating.
AddPerformance ==
    /\ page = "none"
    /\ Len(rows) < MaxPerformances
    /\ \E a \in PerformanceAthletes, tr \in PerformanceTimes :
          rows' = Append(rows,
             [ id                |-> Len(rows) + 1,
               athlete_id        |-> a,
               athlete_gender    |-> IF a = 3 THEN "F" ELSE "M",
               graduation_year   |-> 2026,
               race_gender       |-> IF a = 3 THEN "F" ELSE "M",
               course_id         |-> IF tr[2] = 1100 THEN 2 ELSE 1,
               time_seconds      |-> tr[1],
               xc_time_rating    |-> tr[2],
               distance_miles    |-> 31,
               difficulty_rating |-> 3,
               season_year       |-> 2025,
               meet_date         |-> 20250906 ])
    /\ UNCHANGED << meetVars, pageVars, page, processedResults,
                    xcRecordResults, seasonXcTimes, seasonStats, personalBests, homeVars,
                    recordVars, courseVars, importVars >>

\* loadData of the school records page as far as the top-10 lists go: the
\* effect on params.id runs loadData, which sets the school and then calls
\* loadTop10Performances of the same render, whose school is still the one
\* the state held when the effect ran (null on mount).  One query per
\* gender; a query that fails leaves its list as it was.
LoadTop10Performances ==
    /\ page \in {"none", "top10"}
    /\ school' = SchoolId
    /\ IF school = NULL
          THEN /\ page' = "top10"
               /\ UNCHANGED << boysTop10, girlsTop10 >>
          ELSE \E boysError \in BOOLEAN, girlsError \in BOOLEAN :
                 /\ page' = IF boysError \/ girlsError THEN "error" ELSE "top10"
                 /\ boysTop10' = IF boysError THEN boysTop10
                                 ELSE Top10Performances(Top10Query(rows, "M"))
                 /\ girlsTop10' = IF girlsError THEN girlsTop10
                                  ELSE Top10Performances(Top10Query(rows, "F"))
    /\ UNCHANGED << meetVars, pageVars, rows, processedResults, xcRecordResults,
                    seasonXcTimes, seasonStats, personalBests, homeVars, boysXCRecords,
                    girlsXCRecords, boysTeamRecords, girlsTeamRecords,
                    courseVars, importVars >>

\* The results of one race for one gender, all of them at once: the slowest
\* first, ten seconds apart.
AddRaceResults ==
    /\ page = "none"
    /\ \E race \in TeamRaces, g \in AthleteGenders, n \in GroupSizes,
          base \in GroupBaseTimes :
          /\ \A i \in DOMAIN rows :
                ~(rows[i].race_id = race /\ rows[i].athlete_gender = g)
          /\ Cardinality({ << rows[i].race_id, rows[i].athlete_gender >> :
                            i \in DOMAIN rows }) < MaxRaceGroups
          /\ rows' = rows \o
               [k \in 1..n |->
                  [ id                |-> Len(rows) + k,
                    athlete_id        |-> Len(rows) + k,
                    athlete_gender    |-> g,
                    graduation_year   |-> 2026,
                    race_gender       |-> g,
                    race_id           |-> race,
                    course_id         |-> 1,
                    time_seconds      |-> base + 10 * (n - k),
                    xc_time_rating    |-> 1000,
                    distance_miles    |-> 31,
                    difficulty_rating |-> 3,
                    season_year       |-> 2025,
                    meet_date         |-> IF race = 1 THEN 20250906
                                          ELSE 20251004 ]]
    /\ UNCHANGED << meetVars, pageVars, page, processedResults,
                    xcRecordResults, seasonXcTimes, seasonStats, personalBests, homeVars,
                    recordVars, courseVars, importVars >>

\* loadData of the school records page as far as the team records go: it
\* sets the school and then calls loadTeamRecords of the same render, which
\* returns at once without a school (null on mount) or on a query error.
LoadTeamRecords ==
    /\ page \in {"none", "teams", "teamsSkipped"}
    /\ school' = SchoolId
    /\ \E resultsError \in BOOLEAN :
          IF school = NULL \/ resultsError
          THEN /\ page' = "teamsSkipped"
               /\ UNCHANGED << boysTeamRecords, girlsTeamRecords >>
          ELSE LET resultsData == TeamQuery(rows)
               IN  /\ page' = "teams"
                   /\ boysTeamRecords' =
                        SetTeamRecords(boysTeamRecords,
                                       Teams(resultsData, "M", school))
                   /\ girlsTeamRecords' =
                        SetTeamRecords(girlsTeamRecords,
                                       Teams(resultsData, "F", school))
    /\ UNCHANGED << meetVars, pageVars, rows, processedResults, xcRecordResults,
                    seasonXcTimes, seasonStats, personalBests, homeVars, boysXCRecords,
                    girlsXCRecords, boysTop10, girlsTop10, courseVars, importVars >>

\* loadCourseRecords of the course page, for one course; a query error is
\* caught and leaves the records as they were.
LoadCourseRecords ==
    /\ page = "none"
    /\ \E c \in {1, 2}, queryFailed \in BOOLEAN :
          IF queryFailed
          THEN /\ page' = "error"
               /\ UNCHANGED courseVars
          ELSE LET courseResults == CourseResults(rows, c)
               IN  /\ page' = "course"
                   /\ courseId' = c
                   /\ boysRecords' = CourseRecords(courseResults, "M")
                   /\ girlsRecords' = CourseRecords(courseResults, "F")
    /\ UNCHANGED << meetVars, pageVars, rows, processedResults, xcRecordResults,
                    seasonXcTimes, seasonStats, personalBests, homeVars, recordVars,
                    importVars >>

\* A row of results_with_details for the athlete, as the query returns it:
\* newest meet first.
AddAthleteResult ==
    /\ page = "none"
    /\ Len(rows) < MaxBestRows
    /\ \E c \in BestCourses, t \in BestTimes, d \in BestDates :
          /\ rows # << >> => d <= rows[Len(rows)].meet_date
          /\ rows' = Append(rows,
               [ id                |-> Len(rows) + 1,
                 athlete_id        |-> 1,
                 athlete_gender    |-> "M",
                 graduation_year   |-> 2026,
                 race_gender       |-> "M",
                 course_id         |-> c,
                 time_seconds      |-> t,
                 xc_time_rating    |-> 1000,
                 distance_miles    |-> 31,
                 difficulty_rating |-> 3,
                 season_year       |-> 2025,
                 meet_date         |-> d ])
    /\ UNCHANGED << meetVars, pageVars, page, processedResults,
                    xcRecordResults, seasonXcTimes, seasonStats, personalBests,
                    homeVars, recordVars, courseVars, importVars >>

\* AthletePage once loadAthleteData has stored the athlete's results.
AthletePage ==
    /\ page = "none"
    /\ page' = "athlete"
    /\ seasonXcTimes' = SeasonXcTimes(rows)
    /\ seasonStats' = SeasonStats(rows)
    /\ personalBests' = CalculatePersonalBests(rows)
    /\ UNCHANGED << meetVars, pageVars, rows, processedResults,
                    xcRecordResults, homeVars, recordVars, courseVars, importVars >>

\* ---------------------------------------------------------------- home page

\* Keys of athleteResults in insertion order: each athlete at the first row
\* that has an athlete_id and a normalized time above 0.
AthleteResultKeys(all) ==
    LET ok(i) == Truthy(all[i].athlete_id) /\ all[i].normalized_time_seconds > 0
        idx   == SelectSeq([i \in 1..Len(all) |-> i],
                           LAMBDA i : /\ ok(i)
                                      /\ \A j \in 1..(i - 1) :
                                           ok(j) => all[j].athlete_id # all[i].athlete_id)
    IN  [k \in 1..Len(idx) |-> all[idx[k]].athlete_id]

\* The results of all athletes together, whichever athlete is asked for.
AthleteSortedResultsOfAll(all, athleteId) ==
    LET mine == SelectSeq(all, LAMBDA r : r.normalized_time_seconds > 0)
    IN  SortByKey(mine, [i \in 1..Len(mine) |-> mine[i].meet_date])

\* athleteResults.get(athleteId), sorted by meet_date.
AthleteSortedResults(all, athleteId) ==
    LET mine == SelectSeq(all, LAMBDA r : /\ r.athlete_id = athleteId
                                          /\ r.normalized_time_seconds > 0)
    IN  SortByKey(mine, [i \in 1..Len(mine) |-> mine[i].meet_date])

\* reduce((best, current) => current.x < best.x ? current : best): the first
\* element with the least normalized time.
BestResult(s) ==
    s[CHOOSE i \in DOMAIN s :
        /\ \A j \in DOMAIN s :
             s[i].normalized_time_seconds <= s[j].normalized_time_seconds
        /\ \A j \in 1..(i - 1) :
             s[j].normalized_time_seconds > s[i].normalized_time_seconds]

\* The normalized time of the oldest historical result.
OldPROfFirst(historicalResults) == historicalResults[1].normalized_time_seconds

\* Math.min(...historicalResults.map(r => r.normalized_time_seconds)).
OldPR(historicalResults) == BestResult(historicalResults).normalized_time_seconds

\* The athletes that push an improvement, in athleteResults order: those with
\* a recent result, a historical result and newPR < oldPR.
ImprovedAthletes(all, cutoffDate) ==
    SelectSeq(AthleteResultKeys(all),
              LAMBDA a :
                LET sortedResults     == AthleteSortedResults(all, a)
                    recentResults     == SelectSeq(sortedResults,
                                           LAMBDA r : r.meet_date >= cutoffDate)
                    historicalResults == SelectSeq(sortedResults,
                                           LAMBDA r : r.meet_date < cutoffDate)
                IN  /\ recentResults # << >>
                    /\ historicalResults # << >>
                    /\ BestResult(recentResults).normalized_time_seconds
                         < OldPR(historicalResults))

\* improvements.push({...}) for one improved athlete; the percentage
\* ((oldPR - newPR) / oldPR) * 100 is held as a fraction.  The athlete's names
\* stand as the athlete's id.
BigMoverOf(all, athleteId, cutoffDate) ==
    LET sortedResults     == AthleteSortedResults(all, athleteId)
        recentResults     == SelectSeq(sortedResults,
                                       LAMBDA r : r.meet_date >= cutoffDate)
        historicalResults == SelectSeq(sortedResults,
                                       LAMBDA r : r.meet_date < cutoffDate)
        bestRecentResult  == BestResult(recentResults)
        oldPR             == OldPR(historicalResults)
        newPR             == bestRecentResult.normalized_time_seconds
    IN  [ athlete                |-> bestRecentResult.athlete_id,
          improvement_percentage |-> << (oldPR - newPR) * 100, oldPR >>,
          gender                 |-> bestRecentResult.gender ]

\* sort((a, b) => b.improvement_percentage - a.improvement_percentage): a
\* stable descending sort of BigMovers.
SortByImprovement(movers) ==
    LET n == Len(movers)
        pct(i) == movers[i].improvement_percentage
        pos(i) == Cardinality({j \in 1..n : FracLess(pct(i), pct(j))})
                  + Cardinality({j \in 1..i : FracEq(pct(j), pct(i))})
    IN  [p \in 1..n |-> movers[CHOOSE i \in 1..n : pos(i) = p]]

\* The gender the girls' branch of calculateBigMovers filters on.
GirlsMoverGender == "M"

\* calculateBigMovers(allResults, cutoffDate).
CalculateBigMovers(all, cutoffDate) ==
    LET keys         == ImprovedAthletes(all, cutoffDate)
        improvements == [k \in 1..Len(keys) |-> BigMoverOf(all, keys[k], cutoffDate)]
    IN  [ boys  |-> Slice(SortByImprovement(
                       SelectSeq(improvements, LAMBDA m : m.gender = "M")), 5),
          girls |-> Slice(SortByImprovement(
                       SelectSeq(improvements,
                                 LAMBDA m : m.gender = GirlsMoverGender)), 5) ]

\* The meets of the rows, as meetCRUD.getAll() returns them: one per meet date.
AllMeets(all) ==
    LET idx == SelectSeq([i \in 1..Len(all) |-> i],
                         LAMBDA i : \A j \in 1..(i - 1) :
                                      all[j].meet_date # all[i].meet_date)
    IN  [k \in 1..Len(idx) |-> all[idx[k]].meet_date]

\* The value loadData passes to setRecentMeets: the meets of the last 10 days,
\* newest first, at most 10; the 5 newest of all meets when those are fewer
\* than 5.
RecentMeetsOf(allMeets) ==
    LET newestFirst(s) == SortByKey(s, [i \in 1..Len(s) |-> 0 - s[i]])
        recentMeetsFiltered ==
            Slice(newestFirst(SelectSeq(allMeets, LAMBDA d : d >= TenDaysAgo)), 10)
    IN  IF Len(recentMeetsFiltered) < 5
        THEN Slice(newestFirst(allMeets), 5)
        ELSE recentMeetsFiltered

\* The value loadData passes to setTopPerformances: per gender the 5 fastest
\* results of the last 10 days with a time in (0, 3600).
TopPerformancesOf(all) ==
    LET recentResults == SelectSeq(all, LAMBDA r : /\ r.meet_date >= TenDaysAgo
                                                   /\ r.time_seconds > 0
                                                   /\ r.time_seconds < 3600)
        fastest(g) == LET mine == SelectSeq(recentResults, LAMBDA r : r.gender = g)
                      IN  Slice(SortByKey(mine, [i \in 1..Len(mine) |->
                                                   mine[i].time_seconds]), 5)
    IN  [ boys |-> fastest("M"), girls |-> fastest("F") ]

\* A row of getAllWithDetails: an athlete's result with the athlete's gender,
\* the meet's date and the normalized time.  An athlete has one gender.
AddDetail ==
    /\ homePhase = "mount"
    /\ Len(allResults) < MaxDetails
    /\ \E a \in DetailAthletes, g \in Genders, d \in DetailDates, t \in DetailTimes :
          /\ \A i \in DOMAIN allResults :
                allResults[i].athlete_id = a => allResults[i].gender = g
          /\ allResults' = Append(allResults,
                [ athlete_id              |-> a,
                  gender                  |-> g,
                  meet_date               |-> d,
                  time_seconds            |-> t,
                  normalized_time_seconds |-> t ])
    /\ UNCHANGED << meetVars, pageVars, rows, page, processedResults,
                    xcRecordResults, seasonXcTimes, seasonStats, personalBests, recordVars,
                    courseVars, importVars, homePhase, recentMeets, bigMovers,
                    topPerformances >>

\* A row of getAllWithDetails for the big movers: a result of an athlete
\* dated before, on or after the 30-day cutoff.  An athlete has one gender.
AddHistory ==
    /\ homePhase = "mount"
    /\ Len(allResults) < MaxHistory
    /\ \E a \in DetailAthletes, g \in Genders, d \in HistoryDates,
          t \in DetailTimes :
          /\ \A i \in DOMAIN allResults :
                allResults[i].athlete_id = a => allResults[i].gender = g
          /\ allResults' = Append(allResults,
                [ athlete_id              |-> a,
                  gender                  |-> g,
                  meet_date               |-> d,
                  time_seconds            |-> t,
                  normalized_time_seconds |-> t ])
    /\ UNCHANGED << meetVars, pageVars, rows, page, processedResults,
                    xcRecordResults, seasonXcTimes, seasonStats, personalBests, recordVars,
                    courseVars, importVars, homePhase, recentMeets, bigMovers,
                    topPerformances >>

\* loadData of the home page, run by the mount effect and by the Retry button
\* of the error view.  A query that throws ends it in the error view with the
\* state set so far.  The big movers and top performances are set only when
\* recentMeets, as this run of loadData closed over it, is not empty.
LoadData ==
    /\ homePhase \in {"mount", "error"}
    /\ \E thrownBy \in {"none", "stats", "meets", "results"} :
          CASE thrownBy \in {"stats", "meets"} ->
                 /\ homePhase' = "error"
                 /\ UNCHANGED << recentMeets, bigMovers, topPerformances >>
            [] thrownBy = "results" ->
                 /\ homePhase' = "error"
                 /\ recentMeets' = RecentMeetsOf(AllMeets(allResults))
                 /\ UNCHANGED << bigMovers, topPerformances >>
            [] thrownBy = "none" ->
                 /\ homePhase' = "loaded"
                 /\ recentMeets' = RecentMeetsOf(AllMeets(allResults))
                 /\ IF Len(recentMeets) > 0
                    THEN /\ bigMovers' = CalculateBigMovers(allResults, ThirtyDaysAgo)
                         /\ topPerformances' = TopPerformancesOf(allResults)
                    ELSE UNCHANGED << bigMovers, topPerformances >>
    /\ UNCHANGED << meetVars, pageVars, rows, page, processedResults,
                    xcRecordResults, seasonXcTimes, seasonStats, personalBests, recordVars,
                    courseVars, importVars, allResults >>

\* ---------------------------------------------------------------- importer

\* An athlete the database holds before the import, as an earlier import or
\* a form created it.
AddExistingAthlete ==
    /\ meetInfo = 0
    /\ parsedData = << >>
    /\ Len(athletesTable) < MaxExistingAthletes
    /\ \E name \in ImportNames, gy \in {2025, 2026} :
          athletesTable' = Append(athletesTable,
             [ id                |-> Len(athletesTable) + 1,
               first_name        |-> name.firstName,
               last_name         |-> name.lastName,
               graduation_year   |-> gy,
               gender            |-> "M",
               current_school_id |-> SchoolId,
               from_row          |-> 0 ])
    /\ UNCHANGED << meetVars, pageVars, rows, page, processedResults,
                    xcRecordResults, seasonXcTimes, seasonStats,
                    personalBests, homeVars, recordVars, courseVars,
                    parsedData, meetInfo, importComplete, stats,
                    resultsTable >>

\* A row of the file parsed by handleFileSelect: Duration is the value
\* timeToSeconds gives for the row.
AddFileRow ==
    /\ meetInfo = 0
    /\ Len(parsedData) < MaxFileRows
    /\ \E name \in ImportNames, grade \in ImportGrades :
          parsedData' = Append(parsedData,
             [ Athlete  |-> name,
               School   |-> SchoolId,
               Grade    |-> grade,
               Gender   |-> "Boys",
               Duration |-> 930 + Len(parsedData),
               Place    |-> Len(parsedData) + 1 ])
    /\ UNCHANGED << meetVars, pageVars, rows, page, processedResults,
                    xcRecordResults, seasonXcTimes, seasonStats,
                    personalBests, homeVars, recordVars, courseVars,
                    meetInfo, importComplete, stats, athletesTable,
                    resultsTable >>

\* continueImport(data, meetInfo, courseData), from the creation of the meet
\* to the end: the athletes are read once, the missing ones created row by
\* row, then the results inserted row by row. An exception of
\* athleteCRUD.create ends the import in the catch block.
ContinueImport ==
    /\ meetInfo = 0
    /\ parsedData # << >>
    /\ \E date \in ImportMeetDates, enforced \in BOOLEAN :
          LET year == GetFullYear(date)
              existingAthletes == athletesTable
              start == [ table   |-> athletesTable,
                         map     |-> << >>,
                         created |-> 0,
                         threw   |-> FALSE ]
              after == CreateMissingAthletes(parsedData, 1, start,
                                             existingAthletes, year, enforced)
              inserted == ImportResults(parsedData, 1, resultsTable,
                                        after.map, 1, year)
          IN  /\ meetInfo' = date
              /\ athletesTable' = after.table
              /\ IF after.threw
                 THEN /\ resultsTable' = resultsTable
                      /\ importComplete' = FALSE
                      /\ stats' = [ athletesCreated |-> after.created,
                                    resultsImported |-> 0,
                                    errors          |-> 1 ]
                 ELSE /\ resultsTable' = inserted
                      /\ importComplete' = TRUE
                      /\ stats' =
                           [ athletesCreated |-> after.created,
                             resultsImported |->
                                 Len(inserted) - Len(resultsTable),
                             errors          |->
                                 Len(parsedData)
                                   - (Len(inserted) - Len(resultsTable)) ]
    /\ UNCHANGED << meetVars, pageVars, rows, page, processedResults,
                    xcRecordResults, seasonXcTimes, seasonStats,
                    personalBests, homeVars, recordVars, courseVars,
                    parsedData >>

Init ==
    /\ meetRating \in MeetRatings
    /\ results = << >>
    /\ pc = "db"
    /\ boysSortedResults = << >>
    /\ girlsSortedResults = << >>
    /\ boysTeamScores = << >>
    /\ girlsTeamScores = << >>
    /\ boysIncompleteTeams = << >>
    /\ girlsIncompleteTeams = << >>
    /\ allSortedResults = << >>
    /\ rows = << >>
    /\ page = "none"
    /\ processedResults = << >>
    /\ xcRecordResults = << >>
    /\ seasonXcTimes = << >>
    /\ seasonStats = [ races |-> 0, avgTime |-> << 0, 1 >>,
                       bestTime |-> << 0, 1 >>, improvement |-> << 0, 1 >> ]
    /\ personalBests = << >>
    /\ boysXCRecords = << >>
    /\ girlsXCRecords = << >>
    /\ boysRecords = << >>
    /\ girlsRecords = << >>
    /\ courseId = 0
    /\ boysTop10 = << >>
    /\ girlsTop10 = << >>
    /\ school = NULL
    /\ boysTeamRecords = << >>
    /\ girlsTeamRecords = << >>
    /\ allResults = << >>
    /\ homePhase = "mount"
    /\ recentMeets = << >>
    /\ bigMovers = [ boys |-> << >>, girls |-> << >> ]
    /\ topPerformances = [ boys |-> << >>, girls |-> << >> ]
    /\ parsedData = << >>
    /\ meetInfo = 0
    /\ importComplete = FALSE
    /\ stats = [ athletesCreated |-> 0, resultsImported |-> 0, errors |-> 0 ]
    /\ athletesTable = << >>
    /\ resultsTable = << >>

Next == AddResult(MaxResults) \/ CombinedResultsPage

Spec == Init /\ [][Next]_vars

NextTie == AddResult(MaxTieResults) \/ CombinedResultsPage

\* The same page over meets large enough for two teams of six runners.
SpecTie == Init /\ [][NextTie]_vars

NextOrder == AddResultInTimeOrder \/ CombinedResultsPage

\* The same page over meets whose times tie and whose ids come in any order.
SpecOrder == Init /\ [][NextOrder]_vars

NextDup == AddResultOfAthlete \/ CombinedResultsPage

\* The same page over meets that hold several results of one athlete.
SpecDup == Init /\ [][NextDup]_vars

NextHome == AddDetail \/ LoadData

\* The home page over the rows of getAllWithDetails.
SpecHome == Init /\ [][NextHome]_vars

NextGrade == AddRecordRow \/ LoadOverallXCRecords \/ LoadCourseRecords

\* The record pages over results of athletes of several grades.
SpecGrade == Init /\ [][NextGrade]_vars

NextGender == AddGenderRow \/ LoadOverallXCRecords

\* The school records page over races and athletes tagged independently.
SpecGender == Init /\ [][NextGender]_vars

NextBests == AddAthleteResult \/ AthletePage

\* The athlete page over results on courses that may share a name.
SpecBests == Init /\ [][NextBests]_vars

NextImport == AddExistingAthlete \/ AddFileRow \/ ContinueImport

\* The importer over a file whose rows may name an athlete more than once.
SpecImport == Init /\ [][NextImport]_vars

NextMixed == AddMixedResult \/ CombinedResultsPage

\* Meets with races of both genders and athletes without a school.
SpecMixed == Init /\ [][NextMixed]_vars

NextMovers == AddHistory \/ LoadData

\* The home page over histories that reach the cutoff date.
SpecMovers == Init /\ [][NextMovers]_vars

NextTop == AddPerformance \/ LoadTop10Performances

\* The top-10 lists of the school records page.
SpecTop == Init /\ [][NextTop]_vars

NextTeam == AddRaceResults \/ LoadTeamRecords

\* The team records of the school records page.
SpecTeam == Init /\ [][NextTeam]_vars

NextNorm == AddRow \/ LoadSchoolResults \/ LoadOverallXCRecords \/ AthletePage

\* The pages that normalize times, over the joined rows of a school or athlete.
SpecNorm == Init /\ [][NextNorm]_vars

\* ------------------------------------------------- what the page rendered

\* The rendered outputs of one gender.
Rendered(g) ==
    IF g = "M"
    THEN [ teamScores      |-> boysTeamScores,
           incompleteTeams |-> boysIncompleteTeams,
           sortedResults   |-> boysSortedResults ]
    ELSE [ teamScores      |-> girlsTeamScores,
           incompleteTeams |-> girlsIncompleteTeams,
           sortedResults   |-> girlsSortedResults ]

\* Result ids of the runners with team-place 1..7 on the teams in standings.
QualifyingResultIds(teamScores) ==
    UNION { { teamScores[t].runners[k].resultId :
                k \in { j \in DOMAIN teamScores[t].runners :
                          teamScores[t].runners[j].teamPlace <= 7 } } :
            t \in DOMAIN teamScores }

\* The entry of sortedResults for one result id.
EntryOf(sortedResults, resultId) ==
    sortedResults[CHOOSE i \in DOMAIN sortedResults :
                    sortedResults[i].id = resultId]

\* Number of rows of the input with this race gender and school.
Finishers(g, s) ==
    Cardinality({ i \in DOMAIN results :
                    results[i].race_gender = g /\ results[i].school_id = s })

\* Positions of a school in a list of teams.
TeamPositions(teams, s) == { k \in DOMAIN teams : teams[k].schoolId = s }

\* school, score and place of each team in standings order.
StandingsSummary(teamScores) ==
    [k \in DOMAIN teamScores |->
       << teamScores[k].schoolId, teamScores[k].teamScore, teamScores[k].place >>]

\* ----------------------------------------------------------------- C1

\* The joined row a processed result was made from.
RowOf(id) == rows[CHOOSE i \in DOMAIN rows : rows[i].id = id]

\* The meet row a combined result was made from.
MeetRowOf(id) == results[CHOOSE i \in DOMAIN results : results[i].id = id]

\* x is exactly time_seconds * rating (x whole, the rating in 1/RatingDen).
IsTimeTimesRating(x, time_seconds, rating) ==
    x * RatingDen = time_seconds * rating

\* C1: every normalized time a page derives equals the result's raw time
\* multiplied by its course's rating and nothing else: on the school results
\* list, in the school XC records and in the combined meet scoring (whose
\* xc_time is held in 1/RatingDen).
C1_NormalizedIsTimeTimesRating ==
    /\ \A i \in DOMAIN processedResults :
         RowOf(processedResults[i].id).xc_time_rating # NULL =>
           IsTimeTimesRating(processedResults[i].xc_time,
                             RowOf(processedResults[i].id).time_seconds,
                             RowOf(processedResults[i].id).xc_time_rating)
    /\ \A i \in DOMAIN xcRecordResults :
         IsTimeTimesRating(xcRecordResults[i].xc_time,
                           RowOf(xcRecordResults[i].id).time_seconds,
                           RowOf(xcRecordResults[i].id).xc_time_rating)
    /\ \A g \in Genders : \A i \in DOMAIN Rendered(g).sortedResults :
         LET r == Rendered(g).sortedResults[i]
         IN  r.xc_time = MeetRowOf(r.id).time_seconds * meetRating

\* ----------------------------------------------------------------- C2

\* C2: a result whose course has no rating is never given a normalized time:
\* no page lists such a result with an xc_time.
C2_NoNormalizedTimeWithoutRating ==
    /\ \A i \in DOMAIN processedResults :
         RowOf(processedResults[i].id).xc_time_rating # NULL
    /\ \A i \in DOMAIN xcRecordResults :
         RowOf(xcRecordResults[i].id).xc_time_rating # NULL
    /\ meetRating = NULL =>
         \A g \in Genders : Rendered(g).sortedResults = << >>

\* ----------------------------------------------------------------- C3

\* C3: the normalized time depends only on the raw time and the course's
\* rating: two results of the athlete's season with equal raw times on
\* courses with equal ratings get equal season XC times, whatever the
\* courses' difficulty and distance.
C3_NormalizedIgnoresDifficultyAndDistance ==
    page = "athlete" =>
      LET prog == SeasonProgression(rows)
      IN  \A i, j \in DOMAIN prog :
            ( /\ prog[i].time_seconds = prog[j].time_seconds
              /\ prog[i].xc_time_rating # NULL
              /\ prog[i].xc_time_rating = prog[j].xc_time_rating )
            => FracEq(seasonXcTimes[i], seasonXcTimes[j])

\* ----------------------------------------------------------------- C4

\* C4: only qualifying athletes receive a scoring place.  A result whose
\* runner has team-place 1..7 on a team in the standings has a scoring place
\* equal to its overall place (its rank in the gender's sorted results); every
\* other result (incomplete team, team-place 8 or more) has scoring place 0.
C4_ScoringPlaceOnlyForQualifiers ==
    pc = "done" =>
      \A g \in Genders :
        LET R == Rendered(g)
            Q == QualifyingResultIds(R.teamScores)
        IN  \A i \in DOMAIN R.sortedResults :
              LET r == R.sortedResults[i]
              IN  /\ r.overallPlace = i
                  /\ r.id \in Q => r.scoringPlace = r.overallPlace
                  /\ r.id \notin Q => r.scoringPlace = 0

\* A rendered race with an eighth runner on a complete team, a runner of an
\* incomplete team, and a qualifier behind one of them.
C4_Witness ==
    /\ pc = "done"
    /\ \E g \in Genders :
         LET R == Rendered(g)
         IN  /\ \E t \in DOMAIN R.teamScores : Len(R.teamScores[t].runners) >= 8
             /\ R.incompleteTeams # << >>
             /\ \E i, j \in DOMAIN R.sortedResults :
                  /\ i < j
                  /\ R.sortedResults[i].scoringPlace = 0
                  /\ R.sortedResults[j].scoringPlace = j

\* ----------------------------------------------------------------- C5

\* C5: non-qualifying runners never affect any team's score.  The standings
\* (school, score, place) rendered from the input equal the standings computed
\* from the input with the non-qualifying results of that race removed.
C5_NonQualifiersNeverAffectScores ==
    pc = "done" =>
      \A g \in Genders :
        LET R    == Rendered(g)
            Q    == QualifyingResultIds(R.teamScores)
            kept == SelectSeq(results,
                              LAMBDA row : row.race_gender = g => row.id \in Q)
        IN  StandingsSummary(R.teamScores)
              = StandingsSummary(GenderStandings(kept, meetRating, g).teamScores)

\* ----------------------------------------------------------------- C6

\* C6: the reported score of every team in the standings is the sum of the
\* scoring places of its counting runners (team-places 1..5), and there are
\* exactly five of them.
C6_ScoreIsSumOfCountingPlaces ==
    pc = "done" =>
      \A g \in Genders :
        LET R == Rendered(g)
        IN  \A t \in DOMAIN R.teamScores :
              LET team     == R.teamScores[t]
                  counting == SelectSeq(team.runners,
                                        LAMBDA u : u.teamPlace <= 5)
              IN  /\ Len(counting) = 5
                  /\ team.teamScore =
                       SumSeq([k \in 1..Len(counting) |->
                                 EntryOf(R.sortedResults,
                                         counting[k].resultId).scoringPlace])

\* Two complete teams were scored, one of them with more than the 15 points
\* of a sweep.
C6_Witness ==
    /\ pc = "done"
    /\ \E g \in Genders :
         LET R == Rendered(g)
         IN  /\ Len(R.teamScores) = 2
             /\ \E t \in DOMAIN R.teamScores :
                  /\ R.teamScores[t].teamScore > 15

\* ----------------------------------------------------------------- C7

\* Scoring place of a team's sixth runner (its first displacer).
SixthPlace(R, team) == EntryOf(R.sortedResults, team.runners[6].resultId).scoringPlace

\* C7: of two teams with equal scores, the one whose sixth runner has the
\* lower scoring place is ranked ahead.
C7_TieBrokenBySixthRunner ==
    pc = "done" =>
      \A g \in Genders :
        LET R == Rendered(g)
        IN  \A a, b \in DOMAIN R.teamScores :
              LET A == R.teamScores[a]
                  B == R.teamScores[b]
              IN  ( /\ A.teamScore = B.teamScore
                    /\ Len(A.runners) >= 6
                    /\ Len(B.runners) >= 6
                    /\ SixthPlace(R, A) < SixthPlace(R, B) )
                  => A.place < B.place

\* ----------------------------------------------------------------- C8

\* C8: a school with 5 or more results in the race is in the standings once
\* and not among the incomplete teams; a school with 1..4 results is among the
\* incomplete teams once, with its runners, and not in the standings; when
\* exactly one school has 5 or more, the standings hold exactly one team.
C8_CompleteIffFiveFinishers ==
    pc = "done" =>
      \A g \in Genders :
        LET R == Rendered(g)
        IN  /\ \A s \in SchoolIds :
                 LET n   == Finishers(g, s)
                     std == TeamPositions(R.teamScores, s)
                     inc == TeamPositions(R.incompleteTeams, s)
                 IN  /\ n >= 5 => Cardinality(std) = 1 /\ inc = {}
                     /\ (n >= 1 /\ n < 5) =>
                          /\ std = {}
                          /\ Cardinality(inc) = 1
                          /\ \A k \in inc :
                               /\ R.incompleteTeams[k].totalRunners = n
                               /\ Len(R.incompleteTeams[k].runners) = n
                     /\ n = 0 => std = {} /\ inc = {}
            /\ Cardinality({ s \in SchoolIds : Finishers(g, s) >= 5 }) = 1
                 => Len(R.teamScores) = 1

\* One school with five or more finishers, another with fewer.
C8_Witness ==
    /\ pc = "done"
    /\ \E g \in Genders :
         /\ Len(Rendered(g).teamScores) = 1
         /\ Len(Rendered(g).incompleteTeams) = 1
         /\ \E s \in SchoolIds : Finishers(g, s) = 4

\* ----------------------------------------------------------------- C9

\* Team-places and roles of one team's runner list.
RunnersPlacedAndClassified(runners) ==
    \A i \in DOMAIN runners :
      /\ runners[i].teamPlace = i
      /\ \A j \in DOMAIN runners : i < j => runners[i].xcTime <= runners[j].xcTime
      /\ runners[i].status =
           IF runners[i].teamPlace <= 5 THEN "counting"
           ELSE IF runners[i].teamPlace <= 7 THEN "displacer"
           ELSE "non-counting"

\* C9: within each team the runners are in ascending normalized time with
\* team-places 1..K in that order, and the role is counting for team-places
\* 1..5, displacer for 6 and 7, non-counting from 8 on.
C9_TeamPlacesAndRoles ==
    pc = "done" =>
      \A g \in Genders :
        LET R == Rendered(g)
        IN  /\ \A t \in DOMAIN R.teamScores :
                 /\ RunnersPlacedAndClassified(R.teamScores[t].runners)
                 /\ { R.teamScores[t].runners[k].resultId :
                        k \in DOMAIN R.teamScores[t].runners }
                    = { results[i].id : i \in { j \in DOMAIN results :
                          /\ results[j].race_gender = g
                          /\ results[j].school_id = R.teamScores[t].schoolId } }
            /\ \A t \in DOMAIN R.incompleteTeams :
                 RunnersPlacedAndClassified(R.incompleteTeams[t].runners)

\* A team with counting runners, displacers and a non-counting runner.
C9_Witness ==
    /\ pc = "done"
    /\ \E g \in Genders :
         \E t \in DOMAIN Rendered(g).teamScores :
           LET runners == Rendered(g).teamScores[t].runners
           IN  /\ Len(runners) >= 8
               /\ runners[7].status = "displacer"
               /\ runners[8].status = "non-counting"

\* ---------------------------------------------------------------- C10

\* C10: the standings list the teams in ascending score with places 1..K in
\* that order; a strictly lower score has a strictly smaller place.
C10_StandingsAscendingByScore ==
    pc = "done" =>
      \A g \in Genders :
        LET T == Rendered(g).teamScores
        IN  /\ \A k \in DOMAIN T : T[k].place = k
            /\ \A a, b \in DOMAIN T :
                 /\ a < b => T[a].teamScore <= T[b].teamScore
                 /\ T[a].teamScore < T[b].teamScore => T[a].place < T[b].place

\* Two teams with different scores, the winner not the school met first.
C10_Witness ==
    /\ pc = "done"
    /\ \E g \in Genders :
         LET T == Rendered(g).teamScores
         IN  /\ Len(T) = 2
             /\ T[1].teamScore < T[2].teamScore
             /\ T[1].schoolId # results[1].school_id

\* ---------------------------------------------------------------- C11

\* Ids of the input rows of one race gender.
GenderRowIds(g) ==
    { results[i].id : i \in { j \in DOMAIN results : results[j].race_gender = g } }

\* C11: overall placement gives the N results of a race the places 1..N, each
\* once, in ascending normalized time: every input row of the gender appears
\* exactly once, the places are exactly 1..N, and a strictly smaller
\* normalized time has a strictly smaller overall place.
C11_OverallPlacesAscending ==
    pc = "done" =>
      \A g \in Genders :
        LET S == Rendered(g).sortedResults
            N == Cardinality(GenderRowIds(g))
        IN  /\ Len(S) = N
            /\ { S[i].id : i \in DOMAIN S } = GenderRowIds(g)
            /\ { S[i].overallPlace : i \in DOMAIN S } = 1..N
            /\ \A i, j \in DOMAIN S :
                 S[i].xc_time < S[j].xc_time
                   => S[i].overallPlace < S[j].overallPlace

\* A rendered race of at least three results with different normalized times.
C11_Witness ==
    /\ pc = "done"
    /\ \E g \in Genders :
         LET S == Rendered(g).sortedResults
         IN  /\ Len(S) >= 3
             /\ S[1].xc_time < S[2].xc_time
             /\ S[2].xc_time < S[3].xc_time
             /\ S[3].overallPlace = 3

\* ---------------------------------------------------------------- C12

\* The orders in which the query may return the rows of results: every
\* arrangement of the same rows that is ascending in time_seconds.
ReturnOrders ==
    LET n == Len(results)
    IN  { [i \in 1..n |-> results[f[i]]] :
            f \in { h \in [1..n -> 1..n] :
                      /\ \A a, b \in 1..n : a # b => h[a] # h[b]
                      /\ \A a, b \in 1..n :
                           a < b => results[h[a]].time_seconds
                                      <= results[h[b]].time_seconds } }

\* Team-places by result id over a list of teams.
TeamPlacesOf(teams) ==
    UNION { { << teams[t].runners[k].resultId, teams[t].runners[k].teamPlace >> :
                k \in DOMAIN teams[t].runners } : t \in DOMAIN teams }

\* The places and scores one gender's standings give: overall and scoring
\* place by result id, team-place by result id, score by school.
PlacesAndScores(st) ==
    [ places     |-> { << st.sortedResults[i].id, st.sortedResults[i].overallPlace,
                          st.sortedResults[i].scoringPlace >> :
                       i \in DOMAIN st.sortedResults },
      teamPlaces |-> TeamPlacesOf(st.teamScores) \cup TeamPlacesOf(st.incompleteTeams),
      scores     |-> { << st.teamScores[t].schoolId, st.teamScores[t].teamScore >> :
                       t \in DOMAIN st.teamScores } ]

\* C12: placement is deterministic.  Results with equal normalized time stand
\* in the order of raw time, then result id; and every order in which the
\* same rows can arrive gives the same overall places, team-places, scoring
\* places and team scores as the rendered ones.
C12_PlacementDeterministic ==
    pc = "done" =>
      \A g \in Genders :
        LET S == Rendered(g).sortedResults
        IN  /\ \A i, j \in DOMAIN S :
                 (i < j /\ S[i].xc_time = S[j].xc_time)
                   => \/ S[i].time_seconds < S[j].time_seconds
                      \/ /\ S[i].time_seconds = S[j].time_seconds
                         /\ S[i].id < S[j].id
            /\ \A other \in ReturnOrders :
                 PlacesAndScores(GenderStandings(other, meetRating, g))
                   = PlacesAndScores(Rendered(g))

\* ---------------------------------------------------------------- C13

\* Ids of the results the rendered page places, boys and girls.
PlacedIds ==
    UNION { { Rendered(g).sortedResults[i].id :
                i \in DOMAIN Rendered(g).sortedResults } : g \in Genders }

\* C13: a result that cannot be normalized does not abort race scoring.  Once
\* the meet and its results are read the scoring is rendered, whether or not
\* the course has a rating, and every result of the batch is in its output:
\* placed when it has a normalized time, listed as unscored when it has none
\* (the page's output has no list other than the placed results).
C13_UnratedResultsDoNotAbort ==
    (pc \in {"done", "noRating"} /\ results # << >>) =>
      /\ pc = "done"
      /\ \A i \in DOMAIN results : results[i].id \in PlacedIds

\* ---------------------------------------------------------------- C14

\* Two rows of the batch are results of the same athlete in the same race.
HasDuplicateResult ==
    \E i, j \in DOMAIN results :
      /\ i # j
      /\ results[i].athlete_id = results[j].athlete_id
      /\ results[i].race_gender = results[j].race_gender

\* C14: a batch with two results of one (athlete, race) pair is aborted, never
\* scored: the page renders no scoring from it, and so no team ever holds the
\* same athlete twice among its runners.
C14_DuplicateResultAborts ==
    pc = "done" =>
      /\ ~HasDuplicateResult
      /\ \A g \in Genders : \A t \in DOMAIN Rendered(g).teamScores :
           LET runners == Rendered(g).teamScores[t].runners
           IN  \A a, b \in DOMAIN runners :
                 a # b => runners[a].athleteId # runners[b].athleteId

\* ---------------------------------------------------------------- C15

\* The gender of an athlete of the home page's rows.
DetailGenderOf(athleteId) ==
    allResults[CHOOSE i \in DOMAIN allResults :
                 allResults[i].athlete_id = athleteId].gender

\* The athletes named in a list of big movers.
MoversIn(list) == { list[i].athlete : i \in DOMAIN list }

\* C15: the boys' and girls' big movers never cross-contaminate.  Whenever the
\* page shows the lists calculateBigMovers returns for its rows, every
\* athlete in the boys' list is male, every athlete in the girls' list is
\* female, and every female athlete who improved is in the girls' list (the
\* rows hold fewer than 5 athletes).
C15_BigMoversByOwnGender ==
    (homePhase = "loaded"
       /\ bigMovers = CalculateBigMovers(allResults, ThirtyDaysAgo)) =>
      LET improved == ImprovedAthletes(allResults, ThirtyDaysAgo)
      IN  /\ \A a \in MoversIn(bigMovers.boys) : DetailGenderOf(a) = "M"
          /\ \A a \in MoversIn(bigMovers.girls) : DetailGenderOf(a) = "F"
          /\ \A k \in DOMAIN improved :
               DetailGenderOf(improved[k]) = "F"
                 => improved[k] \in MoversIn(bigMovers.girls)

\* ---------------------------------------------------------------- C16

\* The grade the athletic-year rule gives: 12 - (graduation_year -
\* school_year_ending), the school year ending the next calendar year for a
\* result of July or later and the same year otherwise.
AthleticYearGrade(graduation_year, d) ==
    LET year  == d \div 10000
        month == (d \div 100) % 100
    IN  12 - (graduation_year - (IF month >= 7 THEN year + 1 ELSE year))

\* The row of an athlete (each athlete of SpecGrade has one result).
RowOfAthlete(athleteId) ==
    rows[CHOOSE i \in DOMAIN rows : rows[i].athlete_id = athleteId]

\* Every grade record of the list carries the athletic-year grade of the
\* result it was made from.
GradesByAthleticYear(records) ==
    \A k \in DOMAIN records :
      records[k].grade # Overall =>
        records[k].grade =
          AthleticYearGrade(RowOfAthlete(records[k].athlete_id).graduation_year,
                            RowOfAthlete(records[k].athlete_id).meet_date)

\* C16: every place that infers a grade applies the athletic-year rule: each
\* grade record of the school records page and of the course page is filed
\* under the grade 12 - (graduation_year - school_year_ending) of its result
\* (class of 2026 on 2024-11-04 is grade 11 on both pages).
C16_GradeByAthleticYearRule ==
    /\ page = "schoolRecords" =>
         GradesByAthleticYear(boysXCRecords) /\ GradesByAthleticYear(girlsXCRecords)
    /\ page = "course" =>
         GradesByAthleticYear(boysRecords) /\ GradesByAthleticYear(girlsRecords)

\* ---------------------------------------------------------------- C17

\* The processed results of one athlete gender.
ProcessedOf(g) == SelectSeq(xcRecordResults, LAMBDA r : r.athlete_gender = g)

\* The XC records the school records page shows for a gender.
XCRecordsShown(g) == IF g = "M" THEN boysXCRecords ELSE girlsXCRecords

RecordPool ==
    IF page = "course" THEN SelectSeq(rows, LAMBDA r : r.course_id = courseId)
    ELSE rows

\* The rows of the pool of one gender and athletic-year grade.
Bucket(g, grade) ==
    SelectSeq(RecordPool,
              LAMBDA r : /\ r.athlete_gender = g
                         /\ AthleticYearGrade(r.graduation_year, r.meet_date) = grade)

\* The records a page shows for a gender, with the time it ranks by.
RecordsShown(g) ==
    IF page = "course"
    THEN LET shown == IF g = "M" THEN boysRecords ELSE girlsRecords
         IN  [k \in DOMAIN shown |->
                [ athlete_id |-> shown[k].athlete_id, grade |-> shown[k].grade,
                  race_date |-> shown[k].race_date,
                  time |-> shown[k].time_seconds * RatingDen ]]
    ELSE LET shown == XCRecordsShown(g)
         IN  [k \in DOMAIN shown |->
                [ athlete_id |-> shown[k].athlete_id, grade |-> shown[k].grade,
                  race_date |-> shown[k].race_date,
                  time |-> shown[k].xc_time * RatingDen ]]

\* The time a page ranks a row by, in 1/RatingDen: the normalized time on the
\* school records page, the raw time on the course page (one course).
RankTime(r) ==
    IF page = "course" THEN r.time_seconds * RatingDen
    ELSE r.time_seconds * r.xc_time_rating

\* C18: for each gender and grade 9..12 a page keeps exactly one record when
\* the grade's bucket has a result and none otherwise; the record's time is
\* the least of the bucket, and its athlete and date are those of one result
\* of the bucket with that time.
C18_OneFastestRecordPerBucket ==
    page \in {"schoolRecords", "course"} =>
      \A g \in AthleteGenders : \A grade \in 9..12 :
        LET bucket == Bucket(g, grade)
            kept   == SelectSeq(RecordsShown(g), LAMBDA rec : rec.grade = grade)
        IN  /\ bucket = << >> => kept = << >>
            /\ bucket # << >> =>
                 /\ Len(kept) = 1
                 /\ \A i \in DOMAIN bucket : kept[1].time <= RankTime(bucket[i])
                 /\ \E i \in DOMAIN bucket :
                      /\ bucket[i].athlete_id = kept[1].athlete_id
                      /\ bucket[i].meet_date = kept[1].race_date
                      /\ RankTime(bucket[i]) = kept[1].time

\* ---------------------------------------------------------------- C19

\* The result pool of a gender's leaderboard: all the school's results of
\* athletes of the gender on rated courses, each with its normalized time in
\* 1/RatingDen.
LeaderboardPool(g) ==
    LET mine == SelectSeq(rows, LAMBDA r : /\ r.athlete_gender = g
                                          /\ r.xc_time_rating # NULL)
    IN  [i \in 1..Len(mine) |->
           [ athlete_id   |-> mine[i].athlete_id,
             time_seconds |-> mine[i].time_seconds,
             normalized   |-> mine[i].time_seconds * mine[i].xc_time_rating ]]

\* The normalized times of the pool in ascending order.
PoolTimesAscending(g) ==
    LET pool   == LeaderboardPool(g)
        sorted == SortByKey(pool, [i \in 1..Len(pool) |-> pool[i].normalized])
    IN  [i \in 1..Len(sorted) |-> sorted[i].normalized]

\* The top list shown for a gender.
Top10Shown(g) == IF g = "M" THEN boysTop10 ELSE girlsTop10

\* C19: once the top-N lists have loaded without a query error, the top-N
\* list of a pool holds exactly the min(N, pool size) results
\* of the whole pool with the least normalized times, in ascending order:
\* its times are the first N of the pool's times in ascending order, and
\* each entry is a result of the pool (an athlete may hold several entries).
C19_TopNOfWholePool ==
    page = "top10" =>
      \A g \in AthleteGenders :
        LET shown == Top10Shown(g)
            times == PoolTimesAscending(g)
        IN  /\ Len(shown) = (IF Len(times) < TopN THEN Len(times) ELSE TopN)
            /\ \A k \in DOMAIN shown :
                 /\ shown[k].xc_time * RatingDen = times[k]
                 /\ \E i \in DOMAIN LeaderboardPool(g) :
                      /\ LeaderboardPool(g)[i].athlete_id = shown[k].athlete_id
                      /\ LeaderboardPool(g)[i].time_seconds = shown[k].time_seconds
                      /\ LeaderboardPool(g)[i].normalized
                           = shown[k].xc_time * RatingDen

\* ---------------------------------------------------------------- C20

MoversShown == bigMovers.boys \o bigMovers.girls

\* The rows of an athlete's history dated before the cutoff, and those dated
\* on or after it.
BeforeRows(a) ==
    { i \in DOMAIN allResults : /\ allResults[i].athlete_id = a
                                /\ allResults[i].meet_date < ThirtyDaysAgo }

RecentRows(a) ==
    { i \in DOMAIN allResults : /\ allResults[i].athlete_id = a
                                /\ allResults[i].meet_date >= ThirtyDaysAgo }

\* The big movers of this state are those computed from its results.
MoversComputed ==
    /\ homePhase = "loaded"
    /\ bigMovers = CalculateBigMovers(allResults, ThirtyDaysAgo)

\* C21: every result of an athlete's history is in exactly one of the before
\* (date < cutoff) and recent (date >= cutoff) partitions, and an athlete one
\* of whose partitions is empty is reported in no list of movers; no mover is
\* reported with an improvement of zero.
C21_NoReportWithoutBothPartitions ==
    MoversComputed =>
      /\ \A a \in DetailAthletes :
           /\ BeforeRows(a) \cap RecentRows(a) = {}
           /\ BeforeRows(a) \cup RecentRows(a)
                = { i \in DOMAIN allResults : allResults[i].athlete_id = a }
           /\ (BeforeRows(a) = {} \/ RecentRows(a) = {}) =>
                \A k \in DOMAIN MoversShown : MoversShown[k].athlete # a
      /\ \A k \in DOMAIN MoversShown :
           MoversShown[k].improvement_percentage[1] # 0

\* Movers computed over two athletes: one reported, with a result on the
\* cutoff date as the recent partition, the other with recent results only.
C21_Witness ==
    /\ MoversComputed
    /\ \E a, b \in DetailAthletes :
         /\ \E k \in DOMAIN MoversShown : MoversShown[k].athlete = a
         /\ \A i \in RecentRows(a) : allResults[i].meet_date = ThirtyDaysAgo
         /\ BeforeRows(b) = {}
         /\ RecentRows(b) # {}

\* ---------------------------------------------------------------- C22

\* The least normalized time of a set of rows.
MinTime(idx) ==
    CHOOSE t \in { allResults[i].normalized_time_seconds : i \in idx } :
      \A i \in idx : t <= allResults[i].normalized_time_seconds

\* C22: a reported mover has new_pr < old_pr, with old_pr and new_pr the
\* least normalized times of the athlete's before and recent partitions, and
\* its improvement is (old_pr - new_pr) / old_pr * 100, above zero; an
\* athlete with new_pr >= old_pr is not reported.
C22_ImprovementPercentage ==
    MoversComputed =>
      \A k \in DOMAIN MoversShown :
        LET a == MoversShown[k].athlete
        IN  /\ BeforeRows(a) # {}
            /\ RecentRows(a) # {}
            /\ MinTime(RecentRows(a)) < MinTime(BeforeRows(a))
            /\ FracEq(MoversShown[k].improvement_percentage,
                      << (MinTime(BeforeRows(a)) - MinTime(RecentRows(a))) * 100,
                         MinTime(BeforeRows(a)) >>)
            /\ FracLess(<< 0, 1 >>, MoversShown[k].improvement_percentage)

\* A mover from 320 to 300 reported with 6.25 percent, whose recent results
\* also hold one no better than the old best.
C22_Witness ==
    /\ MoversComputed
    /\ \E k \in DOMAIN MoversShown :
         LET a == MoversShown[k].athlete
         IN  /\ MinTime(BeforeRows(a)) = 320
             /\ MinTime(RecentRows(a)) = 300
             /\ \E i \in RecentRows(a) :
                  allResults[i].normalized_time_seconds = 320
             /\ FracEq(MoversShown[k].improvement_percentage, << 625, 100 >>)

\* ---------------------------------------------------------------- C23

\* The complete and incomplete teams of both genders the page shows.
TeamsShown ==
    boysTeamScores \o boysIncompleteTeams \o girlsTeamScores
      \o girlsIncompleteTeams

\* The results the overall placement step has placed, both genders.
PlacedResults == boysSortedResults \o girlsSortedResults

\* C23: the overall place shown for a runner in the runner list of a complete
\* or incomplete team is the overall place the placement step gave to the
\* same result: the rank by normalized time among the results of its race.
C23_TeamRunnersShowOverallPlace ==
    pc = "done" =>
      \A t \in DOMAIN TeamsShown :
        \A k \in DOMAIN TeamsShown[t].runners :
          \E i \in DOMAIN PlacedResults :
            /\ PlacedResults[i].id = TeamsShown[t].runners[k].resultId
            /\ PlacedResults[i].overallPlace
                 = TeamsShown[t].runners[k].overallPlace

\* ---------------------------------------------------------------- C25

\* How many times a result is listed among the runners of the teams shown.
TimesListed(id) ==
    SumSeq([t \in DOMAIN TeamsShown |->
              Cardinality({ k \in DOMAIN TeamsShown[t].runners :
                              TeamsShown[t].runners[k].resultId = id })])

\* C25: every result of the meet is listed exactly once in the outputs of
\* race scoring: among the runners of one complete team or of one incomplete
\* team (the page has no list of unscored results), a result whose athlete
\* has no school included.
C25_ResultsNeitherDroppedNorDuplicated ==
    pc = "done" =>
      \A i \in DOMAIN results : TimesListed(results[i].id) = 1

\* ---------------------------------------------------------------- C24

\* The courses the athlete has raced, and the least raw time on a course.
CoursesRaced == { rows[i].course_id : i \in DOMAIN rows }

CourseBest(c) ==
    CHOOSE t \in { rows[i].time_seconds : i \in DOMAIN rows } :
      /\ \E i \in DOMAIN rows : rows[i].course_id = c /\ rows[i].time_seconds = t
      /\ \A i \in DOMAIN rows : rows[i].course_id = c => t <= rows[i].time_seconds

\* C24: the personal bests hold exactly one entry for each distinct course
\* the athlete has raced and no other; the entry's best time is the least
\* raw time of the athlete's results on that course, and its date is that of
\* a result on the course with that time.
C24_OnePersonalBestPerCourse ==
    page = "athlete" =>
      /\ Len(personalBests) = Cardinality(CoursesRaced)
      /\ \A c \in CoursesRaced :
           \E k \in DOMAIN personalBests :
             /\ personalBests[k].course_name = CourseNameOf(c)
             /\ personalBests[k].best_time = CourseBest(c)
             /\ \E i \in DOMAIN rows :
                  /\ rows[i].course_id = c
                  /\ rows[i].time_seconds = CourseBest(c)
                  /\ rows[i].meet_date = personalBests[k].meet_date

\* ---------------------------------------------------------------- C26

\* The ids of the results the records of a gender are computed from.
PartitionIds(g) ==
    { GenderResults(xcRecordResults, g)[i].id :
        i \in DOMAIN GenderResults(xcRecordResults, g) }

\* The athletes holding a record in the list of a gender.
RecordHolders(g) ==
    { XCRecordsShown(g)[k].athlete_id : k \in DOMAIN XCRecordsShown(g) }

\* C26: on the school records page the boys' and the girls' partitions of
\* the results are disjoint and every result is in one of them, so no result
\* is counted for both genders and no athlete's result holds a record in both
\* lists.
C26_GenderPartitionsDisjoint ==
    page = "schoolRecords" =>
      /\ PartitionIds("M") \cap PartitionIds("F") = {}
      /\ PartitionIds("M") \cup PartitionIds("F")
           = { xcRecordResults[i].id : i \in DOMAIN xcRecordResults }
      /\ RecordHolders("M") \cap RecordHolders("F") = {}

\* ---------------------------------------------------------------- C27

\* The (first name, last name, school) of an athlete, letter case apart.
TripleOf(athlete) ==
    << ToLowerCase(athlete.first_name), ToLowerCase(athlete.last_name),
       athlete.current_school_id >>

\* The athletes the import created: from_row is the file row an athlete was
\* created from, 0 for an athlete the database held before.
CreatedAthletes ==
    { i \in DOMAIN athletesTable : athletesTable[i].from_row # 0 }

\* C27: after an import, every athlete it created is the only athlete of the
\* table with its (first name, last name, school), letter case apart: none
\* was created where a matching athlete existed, and none twice when its
\* rows repeat in the file.
C27_AtMostOneAthletePerTriple ==
    meetInfo # 0 =>
      \A i \in CreatedAthletes : \A j \in DOMAIN athletesTable :
          TripleOf(athletesTable[i]) = TripleOf(athletesTable[j]) => i = j

\* ---------------------------------------------------------------- C28

\* C28: after an import, the results table holds at most one result for each
\* pair of athlete and meet.
C28_AtMostOneResultPerAthleteAndMeet ==
    importComplete =>
      \A i, j \in DOMAIN resultsTable :
          (/\ resultsTable[i].athlete_id = resultsTable[j].athlete_id
           /\ resultsTable[i].meet_id = resultsTable[j].meet_id) => i = j

\* ---------------------------------------------------------------- C29

\* C29: an athlete the import created from a row with grade g, 9 to 12, at a
\* meet dated D has a graduation year from which the grade filter of the
\* school records page infers g for a race on D.
C29_ImportAndGradeInferenceAgree ==
    meetInfo # 0 =>
      \A i \in CreatedAthletes :
          LET grade == parsedData[athletesTable[i].from_row].Grade
          IN  (grade >= 9 /\ grade <= 12) =>
                GradeOf(athletesTable[i].graduation_year, meetInfo) = grade

\* ---------------------------------------------------------------- C30

\* C30: when a run of loadData has finished without an error over at least
\* one meet and one result, the big movers and the top performances of the
\* page state are those computed from the results.
C30_LoadDataStoresMoversAndPerformances ==
    (homePhase = "loaded" /\ allResults # << >>) =>
      /\ bigMovers = CalculateBigMovers(allResults, ThirtyDaysAgo)
      /\ topPerformances = TopPerformancesOf(allResults)

====
